---- MODULE Spec2Model ----
(***************************************************************************)
(* Observed-remove map (persistent variant, ObservedRemoveMap over an      *)
(* ordered key-value store) and its signed extension.                      *)
(*                                                                         *)
(* A replica's store holds two ranges: the live pairs  N>key -> [id,value] *)
(* and the tombstones  N<id -> key.  Identifiers are fixed-length base-36  *)
(* strings whose leading characters are the creation time; fixed-length    *)
(* strings over one alphabet are ordered lexicographically exactly as the  *)
(* numbers they spell, so an identifier is modelled by a natural number    *)
(* and the string comparison  pair[0] < id  by  <  on those numbers.       *)
(***************************************************************************)
EXTENDS Integers, Sequences, FiniteSets, TLC

\* ------------------------------------------------------------------ bounds
MaxBatch == 3
MaxPending == 2
MaxCalls == 2
MaxNet == 1
MaxGossipCalls == 3
MaxSubmitCalls == 3
MaxSignedBatch == 2
MaxSignedCalls == 1
SuffixSpace == 1
StartTime == 1
MaxTime == 4
MaxPublishCalls == 3
MaxQueuedCalls == 3
MaxIdCounter == 37
MaxSharedCalls == 3

\* ------------------------------------------------------------ input sets
Replicas == {"alice", "bob"}
Keys == {"a", "b"}
Values == {0, 1}
Ids == {1, 2, 3}

\* The catalogue of operations that exist in the replica set: every id was
\* created by exactly one insertion, so an id determines its key and value.
OpKey(id) == IF id % 3 = 0 THEN "b" ELSE "a"
OpValue(id) == id % 2

\* ----------------------------------------------------------- store values
NoPair == <<>>
NoScan == <<>>
NotFound == "notFound"
NoSignature == <<>>
Undefined == -1

InsertMessage(key, id, value) == <<key, <<id, value>>>>
DeleteMessage(id, key) == <<id, key>>

\* The maxAge and bufferPublishing options of the replicas, in clock units.
MaxAge == 2
BufferPublishing == 30

IdLess(a, b) == a < b
IdTime(id) == id \div SuffixSpace

EmptyPairs == [k \in Keys |-> NoPair]
EmptyDeletions == [i \in Ids |-> NotFound]
EmptySignatures == [i \in Ids |-> NoSignature]

\* ------------------------------------------------------------------ flush
\* Range delete of the tombstones whose key sorts below N<pad9(now - maxAge):
\* an id sorts below that bound exactly when its time prefix is smaller.
FlushWithoutMaxAge(dels, t) ==
  [i \in Ids |-> IF IdTime(i) < t THEN NotFound ELSE dels[i]]

Flush(dels, t) ==
  [i \in Ids |-> IF IdTime(i) < t - MaxAge THEN NotFound ELSE dels[i]]

\* The second range delete of the signed flush: the deletion signatures under
\* the same bound.
FlushSignatures(sigs, t) ==
  [i \in Ids |-> IF IdTime(i) < t - MaxAge THEN NoSignature ELSE sigs[i]]

\* --------------------------------------------------------------- _process
\* First pass: every deletion (id, key) of the batch is written as a
\* tombstone, overwriting an earlier one.
RECURSIVE TombstonePass(_, _)
TombstonePass(dels, deletionQueue) ==
  IF deletionQueue = <<>> THEN dels
  ELSE TombstonePass([dels EXCEPT ![Head(deletionQueue)[1]] = Head(deletionQueue)[2]],
                     Tail(deletionQueue))

\* One insertion (key, (id, value)) against the state st = [pairs, size, events].
InsertOneNoTombstoneCheck(st, dels, msg) ==
  LET key == msg[1]
      id == msg[2][1]
      value == msg[2][2]
      pair == st.pairs[key]
  IN IF pair = NoPair
       THEN [pairs |-> [st.pairs EXCEPT ![key] = <<id, value>>],
             size |-> st.size + 1,
             events |-> Append(st.events, <<"set", key, value, Undefined>>)]
     ELSE IF IdLess(pair[1], id)
       THEN [pairs |-> [st.pairs EXCEPT ![key] = <<id, value>>],
             size |-> st.size,
             events |-> Append(st.events, <<"set", key, value, pair[2]>>)]
     ELSE IF pair[1] = id
       THEN [st EXCEPT !.events = Append(@, <<"affirm", key, value, pair[2]>>)]
     ELSE st

InsertOneLastWriterWins(st, dels, msg) ==
  LET key == msg[1]
      id == msg[2][1]
      value == msg[2][2]
      pair == st.pairs[key]
  IN IF dels[id] # NotFound THEN st
     ELSE IF pair = NoPair
       THEN [pairs |-> [st.pairs EXCEPT ![key] = <<id, value>>],
             size |-> st.size + 1,
             events |-> Append(st.events, <<"set", key, value, Undefined>>)]
     ELSE IF pair[1] # id
       THEN [pairs |-> [st.pairs EXCEPT ![key] = <<id, value>>],
             size |-> st.size,
             events |-> Append(st.events, <<"set", key, value, pair[2]>>)]
     ELSE [st EXCEPT !.events = Append(@, <<"affirm", key, value, pair[2]>>)]

InsertOneFirstWriterWins(st, dels, msg) ==
  LET key == msg[1]
      id == msg[2][1]
      value == msg[2][2]
      pair == st.pairs[key]
  IN IF dels[id] # NotFound THEN st
     ELSE IF pair = NoPair
       THEN [pairs |-> [st.pairs EXCEPT ![key] = <<id, value>>],
             size |-> st.size + 1,
             events |-> Append(st.events, <<"set", key, value, Undefined>>)]
     ELSE IF pair[1] = id
       THEN [st EXCEPT !.events = Append(@, <<"affirm", key, value, pair[2]>>)]
     ELSE st

InsertOneWithoutPrevious(st, dels, msg) ==
  LET key == msg[1]
      id == msg[2][1]
      value == msg[2][2]
      pair == st.pairs[key]
  IN IF dels[id] # NotFound THEN st
     ELSE IF pair = NoPair
       THEN [pairs |-> [st.pairs EXCEPT ![key] = <<id, value>>],
             size |-> st.size + 1,
             events |-> Append(st.events, <<"set", key, value, Undefined>>)]
     ELSE IF IdLess(pair[1], id)
       THEN [pairs |-> [st.pairs EXCEPT ![key] = <<id, value>>],
             size |-> st.size,
             events |-> Append(st.events, <<"set", key, value, Undefined>>)]
     ELSE IF pair[1] = id
       THEN [st EXCEPT !.events = Append(@, <<"affirm", key, value, pair[2]>>)]
     ELSE st

InsertOne(st, dels, msg) ==
  LET key == msg[1]
      id == msg[2][1]
      value == msg[2][2]
      pair == st.pairs[key]
  IN IF dels[id] # NotFound THEN st
     ELSE IF pair = NoPair
       THEN [pairs |-> [st.pairs EXCEPT ![key] = <<id, value>>],
             size |-> st.size + 1,
             events |-> Append(st.events, <<"set", key, value, Undefined>>)]
     ELSE IF IdLess(pair[1], id)
       THEN [pairs |-> [st.pairs EXCEPT ![key] = <<id, value>>],
             size |-> st.size,
             events |-> Append(st.events, <<"set", key, value, pair[2]>>)]
     ELSE IF pair[1] = id
       THEN [st EXCEPT !.events = Append(@, <<"affirm", key, value, pair[2]>>)]
     ELSE st

\* The same insertion in the in-memory map, whose process has no branch for
\* an id equal to the live pair's.
InsertOneInMemory(st, dels, msg) ==
  LET key == msg[1]
      id == msg[2][1]
      value == msg[2][2]
      pair == st.pairs[key]
  IN IF dels[id] # NotFound THEN st
     ELSE IF pair = NoPair
       THEN [pairs |-> [st.pairs EXCEPT ![key] = <<id, value>>],
             size |-> st.size + 1,
             events |-> Append(st.events, <<"set", key, value, Undefined>>)]
     ELSE IF IdLess(pair[1], id)
       THEN [pairs |-> [st.pairs EXCEPT ![key] = <<id, value>>],
             size |-> st.size,
             events |-> Append(st.events, <<"set", key, value, pair[2]>>)]
     ELSE st

\* The map variants and the insertion step of each.
MapVariants == {"persistent", "memory"}
InsertOneOf(variant, st, dels, msg) ==
  IF variant = "memory" THEN InsertOneInMemory(st, dels, msg)
  ELSE InsertOne(st, dels, msg)

\* Second pass: the insertions, in batch order.
RECURSIVE InsertionPass(_, _, _)
InsertionPass(st, dels, insertions) ==
  IF insertions = <<>> THEN st
  ELSE InsertionPass(InsertOne(st, dels, Head(insertions)), dels, Tail(insertions))

\* One deletion (id, key) of the third pass.
RemoveOneByKey(st, msg) ==
  LET id == msg[1]
      key == msg[2]
      pair == st.pairs[key]
  IN IF pair # NoPair
       THEN [pairs |-> [st.pairs EXCEPT ![key] = NoPair],
             size |-> st.size - 1,
             events |-> Append(st.events, <<"delete", key, pair[2]>>)]
     ELSE st

RemoveOneIfOlder(st, msg) ==
  LET id == msg[1]
      key == msg[2]
      pair == st.pairs[key]
  IN IF pair # NoPair /\ IdLess(pair[1], id)
       THEN [pairs |-> [st.pairs EXCEPT ![key] = NoPair],
             size |-> st.size - 1,
             events |-> Append(st.events, <<"delete", key, pair[2]>>)]
     ELSE st

RemoveOne(st, msg) ==
  LET id == msg[1]
      key == msg[2]
      pair == st.pairs[key]
  IN IF pair # NoPair /\ pair[1] = id
       THEN [pairs |-> [st.pairs EXCEPT ![key] = NoPair],
             size |-> st.size - 1,
             events |-> Append(st.events, <<"delete", key, pair[2]>>)]
     ELSE st

\* Third pass: the deletions again, removing the live pairs they name.
RECURSIVE RemovalPass(_, _)
RemovalPass(st, deletionQueue) ==
  IF deletionQueue = <<>> THEN st
  ELSE RemovalPass(RemoveOne(st, Head(deletionQueue)), Tail(deletionQueue))

ProcessBodyInsertionsFirst(rs, queue, skipFlush, t) ==
  LET insertions == queue[1]
      deletionQueue == queue[2]
      dels == TombstonePass(rs.deletions, deletionQueue)
      st0 == [pairs |-> rs.pairs, size |-> rs.size, events |-> <<>>]
      st1 == InsertionPass(st0, rs.deletions, insertions)
      st2 == RemovalPass(st1, deletionQueue)
  IN [pairs |-> st2.pairs,
      deletions |-> IF skipFlush THEN dels ELSE Flush(dels, t),
      size |-> st2.size,
      events |-> st2.events]

\* The body of _process on the replica state rs = [pairs, deletions, size] at
\* wall-clock time t; the result carries the events the call emitted.
ProcessBody(rs, queue, skipFlush, t) ==
  LET insertions == queue[1]
      deletionQueue == queue[2]
      dels == TombstonePass(rs.deletions, deletionQueue)
      st0 == [pairs |-> rs.pairs, size |-> rs.size, events |-> <<>>]
      st1 == InsertionPass(st0, dels, insertions)
      st2 == RemovalPass(st1, deletionQueue)
  IN [pairs |-> st2.pairs,
      deletions |-> IF skipFlush THEN dels ELSE Flush(dels, t),
      size |-> st2.size,
      events |-> st2.events]

\* ------------------------------------------------------------------ state
\* pairs, deletions   the two store ranges of each replica
\* size               the size counter
\* insertQueue, deleteQueue, publishTimeout   the publish buffer and its timer
\* processQueue       the calls waiting in the single-flight queue
\* clearKeys          the keys a running clear() has still to delete
\* net                the batches that 'publish' events handed to the transport
\* now                the wall clock
\* events, lastOp, delivered, usedIds   history: the events of the latest call,
\*                    the latest call, the records processed, the ids issued
\* calls              the number of set, delete, clear and sync calls made
\* insertionSigs, deletionSigs   the two signature ranges N[id and N]id of the
\*                    signed variant
\* running            the executions of the _process body that have started and
\*                    not finished, each with the pass it is to do next
\* sizeScan           the count that a running updateSize() will assign to size
\* readyPromise       the state of the promise the constructor made
\* shutdownCall       the state of the latest shutdown() call, with the number
\*                    of calls the application had made when it called it
\* timers             the number of publish timers that setTimeout has armed
\*                    and that have neither fired nor been cleared
\* bufferPublishing   options.bufferPublishing of each replica
\* signedProcessQueue the processSigned calls that wait in the signed map's
\*                    own single-flight queue
\* signedRunning      the processSigned call that queue has started and that
\*                    has not finished, with the part it is to do next
VARIABLES pairs, deletions, size, insertQueue, deleteQueue, publishTimeout,
          processQueue, clearKeys, net, now, events, lastOp, delivered, usedIds,
          calls, insertionSigs, deletionSigs, running, sizeScan, readyPromise,
          shutdownCall, timers, bufferPublishing, signedProcessQueue,
          signedRunning, idCounter, generated, namespace, db, lastAccess

vars == <<pairs, deletions, size, insertQueue, deleteQueue, publishTimeout,
          processQueue, clearKeys, net, now, events, lastOp, delivered, usedIds,
          calls, insertionSigs, deletionSigs, running, sizeScan, readyPromise,
          shutdownCall, timers, bufferPublishing, signedProcessQueue,
          signedRunning, idCounter, generated, namespace, db, lastAccess>>

bufferVars == <<insertQueue, deleteQueue, publishTimeout, timers>>
sigVars == <<insertionSigs, deletionSigs>>
signedQueueVars == <<signedProcessQueue, signedRunning>>
generatorVars == <<idCounter, generated>>
sharedVars == <<namespace, db, lastAccess>>
stepVars == <<running, sizeScan, readyPromise, shutdownCall, bufferPublishing,
             generatorVars, sharedVars, signedQueueVars>>

ReplicaState(r) == [pairs |-> pairs[r], deletions |-> deletions[r], size |-> size[r]]

\* A finished call: threw says that it ended in an exception.
Call(op, key, value, solo) ==
  [op |-> op, key |-> key, value |-> value, solo |-> solo, threw |-> FALSE]

InitMaps ==
  /\ pairs = [r \in Replicas |-> EmptyPairs]
  /\ deletions = [r \in Replicas |-> EmptyDeletions]
  /\ size = [r \in Replicas |-> 0]
  /\ insertQueue = [r \in Replicas |-> <<>>]
  /\ deleteQueue = [r \in Replicas |-> <<>>]
  /\ publishTimeout = [r \in Replicas |-> FALSE]
  /\ processQueue = [r \in Replicas |-> <<>>]
  /\ clearKeys = [r \in Replicas |-> <<>>]
  /\ net = {}
  /\ now = StartTime
  /\ events = [r \in Replicas |-> <<>>]
  /\ lastOp = [r \in Replicas |-> Call("none", "", Undefined, FALSE)]
  /\ delivered = [r \in Replicas |-> [ins |-> {}, del |-> {}, late |-> {}]]
  /\ usedIds = {}
  /\ calls = 0
  /\ insertionSigs = [r \in Replicas |-> EmptySignatures]
  /\ deletionSigs = [r \in Replicas |-> EmptySignatures]
  /\ running = [r \in Replicas |-> <<>>]
  /\ sizeScan = [r \in Replicas |-> NoScan]
  /\ readyPromise = [r \in Replicas |-> "resolved"]
  /\ shutdownCall = [r \in Replicas |-> [state |-> "none", calls |-> 0]]
  /\ timers = [r \in Replicas |-> 0]
  /\ signedProcessQueue = [r \in Replicas |-> <<>>]
  /\ signedRunning = [r \in Replicas |-> <<>>]

\* The process has generated no id yet ('let idCounter = 0').
InitGenerator ==
  /\ idCounter = 0
  /\ generated = <<>>

\* Replicas without the namespace option, on a store nothing was written to.
InitSharedStore ==
  /\ namespace = [r \in Replicas |-> <<>>]
  /\ db = {}
  /\ lastAccess = {}

InitStores == InitMaps /\ InitGenerator /\ InitSharedStore

\* The replicas as constructed with the default options.
InitReplicas ==
  /\ InitStores
  /\ bufferPublishing = [r \in Replicas |-> BufferPublishing]

InsIds(queue) == {queue[1][n][2][1] : n \in 1..Len(queue[1])}
DelIds(queue) == {queue[2][n][1] : n \in 1..Len(queue[2])}

\* The store and size of replica r after one run of the _process body.
ApplyProcess(r, queue, skipFlush) ==
  LET res == ProcessBody(ReplicaState(r), queue, skipFlush, now)
  IN /\ pairs' = [pairs EXCEPT ![r] = res.pairs]
     /\ deletions' = [deletions EXCEPT ![r] = res.deletions]
     /\ size' = [size EXCEPT ![r] = res.size]
     /\ events' = [events EXCEPT ![r] = res.events]

\* ------------------------------------------------- batches of the catalogue
SeqsUpTo(S, n) == UNION {[1..m -> S] : m \in 0..n}
CatalogueInsertions == {InsertMessage(OpKey(i), i, OpValue(i)) : i \in Ids}
CatalogueDeletions == {DeleteMessage(i, OpKey(i)) : i \in Ids}
\* Every batch [insertions, deletions] of at most MaxBatch records.
Batches ==
  UNION {{<<ins, del>> : ins \in [1..m -> CatalogueInsertions],
                         del \in UNION {[1..d -> CatalogueDeletions] : d \in 0..(MaxBatch - m)}}
         : m \in 0..MaxBatch}
\* The batches that carry one record.
SingleRecordBatches == {q \in Batches : Len(q[1]) + Len(q[2]) = 1}

\* process(queue) called on an idle replica with a batch of catalogue
\* records: the single-flight queue runs the body at once.  delivered records
\* what the replica has processed, and late the insertions that arrived when
\* their tombstone was already stored.
Process(r, queue) ==
  /\ ApplyProcess(r, queue, FALSE)
  /\ delivered' = [delivered EXCEPT ![r] =
       [ins |-> @.ins \cup InsIds(queue),
        del |-> @.del \cup DelIds(queue),
        late |-> @.late \cup {i \in InsIds(queue) : deletions[r][i] # NotFound}]]
  /\ lastOp' = [lastOp EXCEPT ![r] = Call("process", "", Undefined, TRUE)]
  /\ UNCHANGED <<bufferVars, processQueue, clearKeys, net, now, usedIds, calls,
                 sigVars, stepVars>>

\* One replica fed with arbitrary batches.
ProcessAny == \E queue \in Batches : Process("alice", queue)
NextProcess == ProcessAny
SpecProcess == InitReplicas /\ [][NextProcess]_vars

\* Two replicas, each fed the records one at a time in any order.
DeliverOne == \E r \in Replicas, queue \in SingleRecordBatches : Process(r, queue)
NextConverge == DeliverOne
SpecConverge == InitReplicas /\ [][NextConverge]_vars

\* ------------------------------------------------------------- accessors
\* The keys of the live pairs of replica r.
LiveKeys(r) == {k \in Keys : pairs[r][k] # NoPair}

\* get(key): the value of the live pair, undefined when there is none.
Get(r, key) == IF pairs[r][key] = NoPair THEN Undefined ELSE pairs[r][key][2]
\* !!value of JavaScript: undefined and 0 are falsy.
Truthy(v) == v # Undefined /\ v # 0
\* has(key) is !!(await this.get(key)).
Has(r, key) == Truthy(Get(r, key))

\* ------------------------------------------------- the replicas as a system
PublishInsertionsOnly(r) ==
  /\ publishTimeout' = [publishTimeout EXCEPT ![r] = FALSE]
  /\ net' = net \cup {<<r, <<insertQueue[r], <<>>>>>>}
  /\ insertQueue' = [insertQueue EXCEPT ![r] = <<>>]
  /\ deleteQueue' = [deleteQueue EXCEPT ![r] = <<>>]

\* publish(): the two queues are swapped for empty ones and handed to sync,
\* which emits them as one 'publish' batch.
Publish(r) ==
  /\ publishTimeout' = [publishTimeout EXCEPT ![r] = FALSE]
  /\ net' = net \cup {<<r, <<insertQueue[r], deleteQueue[r]>>>>}
  /\ insertQueue' = [insertQueue EXCEPT ![r] = <<>>]
  /\ deleteQueue' = [deleteQueue EXCEPT ![r] = <<>>]

PushAndDequeueInsertionsOnly(r, insMsgs, delMsgs) ==
  LET iq == insertQueue[r] \o insMsgs
      dq == deleteQueue[r]
  IN IF publishTimeout[r]
       THEN /\ insertQueue' = [insertQueue EXCEPT ![r] = iq]
            /\ deleteQueue' = [deleteQueue EXCEPT ![r] = dq]
            /\ UNCHANGED <<publishTimeout, timers, net>>
     ELSE IF bufferPublishing[r] > 0
       THEN /\ insertQueue' = [insertQueue EXCEPT ![r] = iq]
            /\ deleteQueue' = [deleteQueue EXCEPT ![r] = dq]
            /\ publishTimeout' = [publishTimeout EXCEPT ![r] = TRUE]
            /\ timers' = [timers EXCEPT ![r] = @ + 1]
            /\ UNCHANGED net
     ELSE /\ publishTimeout' = [publishTimeout EXCEPT ![r] = FALSE]
          /\ UNCHANGED timers
          /\ net' = net \cup {<<r, <<iq, dq>>>>}
          /\ insertQueue' = [insertQueue EXCEPT ![r] = <<>>]
          /\ deleteQueue' = [deleteQueue EXCEPT ![r] = <<>>]

PushAndDequeueAlwaysArming(r, insMsgs, delMsgs) ==
  LET iq == insertQueue[r] \o insMsgs
      dq == deleteQueue[r] \o delMsgs
  IN IF bufferPublishing[r] > 0
       THEN /\ insertQueue' = [insertQueue EXCEPT ![r] = iq]
            /\ deleteQueue' = [deleteQueue EXCEPT ![r] = dq]
            /\ publishTimeout' = [publishTimeout EXCEPT ![r] = TRUE]
            /\ timers' = [timers EXCEPT ![r] = @ + 1]
            /\ UNCHANGED net
     ELSE /\ publishTimeout' = [publishTimeout EXCEPT ![r] = FALSE]
          /\ UNCHANGED timers
          /\ net' = net \cup {<<r, <<iq, dq>>>>}
          /\ insertQueue' = [insertQueue EXCEPT ![r] = <<>>]
          /\ deleteQueue' = [deleteQueue EXCEPT ![r] = <<>>]

PushAndDequeueBuffering(r, insMsgs, delMsgs) ==
  LET iq == insertQueue[r] \o insMsgs
      dq == deleteQueue[r] \o delMsgs
  IN IF publishTimeout[r]
       THEN /\ insertQueue' = [insertQueue EXCEPT ![r] = iq]
            /\ deleteQueue' = [deleteQueue EXCEPT ![r] = dq]
            /\ UNCHANGED <<publishTimeout, timers, net>>
     ELSE /\ insertQueue' = [insertQueue EXCEPT ![r] = iq]
          /\ deleteQueue' = [deleteQueue EXCEPT ![r] = dq]
          /\ publishTimeout' = [publishTimeout EXCEPT ![r] = TRUE]
          /\ timers' = [timers EXCEPT ![r] = @ + 1]
          /\ UNCHANGED net

\* The tail of set()/delete() after process has returned: the messages are
\* pushed on the queues, then dequeue() arms the timer unless one is pending
\* (or publishes at once when bufferPublishing is 0).
PushAndDequeue(r, insMsgs, delMsgs) ==
  LET iq == insertQueue[r] \o insMsgs
      dq == deleteQueue[r] \o delMsgs
  IN IF publishTimeout[r]
       THEN /\ insertQueue' = [insertQueue EXCEPT ![r] = iq]
            /\ deleteQueue' = [deleteQueue EXCEPT ![r] = dq]
            /\ UNCHANGED <<publishTimeout, timers, net>>
     ELSE IF bufferPublishing[r] > 0
       THEN /\ insertQueue' = [insertQueue EXCEPT ![r] = iq]
            /\ deleteQueue' = [deleteQueue EXCEPT ![r] = dq]
            /\ publishTimeout' = [publishTimeout EXCEPT ![r] = TRUE]
            /\ timers' = [timers EXCEPT ![r] = @ + 1]
            /\ UNCHANGED net
     ELSE /\ publishTimeout' = [publishTimeout EXCEPT ![r] = FALSE]
          /\ UNCHANGED timers
          /\ net' = net \cup {<<r, <<iq, dq>>>>}
          /\ insertQueue' = [insertQueue EXCEPT ![r] = <<>>]
          /\ deleteQueue' = [deleteQueue EXCEPT ![r] = <<>>]

Task(op, key, value, queue, skipFlush, solo) ==
  [op |-> op, key |-> key, value |-> value, queue |-> queue,
   skipFlush |-> skipFlush, solo |-> solo]

Idle(r) == processQueue[r] = <<>> /\ clearKeys[r] = <<>>

\* The application makes one more call.
NewCall == calls < MaxCalls /\ calls' = calls + 1

Enqueue(r, task) ==
  /\ Len(processQueue[r]) < MaxPending
  /\ processQueue' = [processQueue EXCEPT ![r] = Append(@, task)]

\* set(key, value, id): the live pair of key is read, and process is called
\* with the insertion and, when a pair was found, the deletion of its id.
SetCall(r, key, value, id) ==
  /\ NewCall
  /\ id \notin usedIds
  /\ LET pair == pairs[r][key]
         ins == InsertMessage(key, id, value)
         queue == IF pair # NoPair
                    THEN <<<<ins>>, <<DeleteMessage(pair[1], key)>>>>
                    ELSE <<<<ins>>, <<>>>>
     IN Enqueue(r, Task("set", key, value, queue, TRUE, Idle(r)))
  /\ usedIds' = usedIds \cup {id}
  /\ UNCHANGED <<pairs, deletions, size, bufferVars, clearKeys, net, now,
                 events, lastOp, delivered, sigVars, stepVars>>

DeleteOfUnconditional(r, key, op) ==
  LET pair == pairs[r][key]
  IN /\ Enqueue(r, Task(op, key, Undefined,
                        IF pair = NoPair THEN <<<<>>, <<>>>>
                        ELSE <<<<>>, <<DeleteMessage(pair[1], key)>>>>,
                        TRUE, Idle(r)))
     /\ UNCHANGED <<events, lastOp>>

\* delete(key): nothing happens when the key has no live pair; otherwise
\* process is called with the deletion of the pair's id.
DeleteOf(r, key, op) ==
  LET pair == pairs[r][key]
  IN IF pair = NoPair
       THEN /\ events' = [events EXCEPT ![r] = <<>>]
            /\ lastOp' = [lastOp EXCEPT ![r] = Call(op, key, Undefined, Idle(r))]
            /\ UNCHANGED processQueue
     ELSE /\ Enqueue(r, Task(op, key, Undefined,
                             <<<<>>, <<DeleteMessage(pair[1], key)>>>>, TRUE, Idle(r)))
          /\ UNCHANGED <<events, lastOp>>

DeleteCall(r, key) ==
  /\ NewCall
  /\ DeleteOf(r, key, "delete")
  /\ UNCHANGED <<pairs, deletions, size, bufferVars, clearKeys, net, now,
                 delivered, usedIds, sigVars, stepVars>>

\* The keys of the live pairs in store order.
RECURSIVE SortedKeys(_)
SortedKeys(S) ==
  IF S = {} THEN <<>>
  ELSE LET k == CHOOSE x \in S : \A y \in S : (x = y) \/ (x = "a")
       IN <<k>> \o SortedKeys(S \ {k})

\* clear(): the key iterator is opened over the live-pair range ...
ClearCall(r) ==
  /\ NewCall
  /\ clearKeys[r] = <<>>
  /\ \E k \in Keys : pairs[r][k] # NoPair
  /\ clearKeys' = [clearKeys EXCEPT ![r] = SortedKeys({k \in Keys : pairs[r][k] # NoPair})]
  /\ UNCHANGED <<pairs, deletions, size, bufferVars, processQueue, net, now,
                 events, lastOp, delivered, usedIds, sigVars, stepVars>>

\* ... and delete(key) is awaited for each key it yields, one after another.
ClearStep(r) ==
  /\ clearKeys[r] # <<>>
  /\ \A n \in 1..Len(processQueue[r]) : processQueue[r][n].op # "clear"
  /\ DeleteOf(r, Head(clearKeys[r]), "clear")
  /\ clearKeys' = [clearKeys EXCEPT ![r] = Tail(@)]
  /\ UNCHANGED <<pairs, deletions, size, bufferVars, net, now, delivered, usedIds,
                 calls, sigVars, stepVars>>

\* process(queue) called with a batch a peer published.
ProcessCall(r) ==
  /\ \E msg \in net :
       /\ msg[1] # r
       /\ Enqueue(r, Task("process", "", Undefined, msg[2], FALSE, Idle(r)))
  /\ UNCHANGED <<pairs, deletions, size, bufferVars, clearKeys, net, now,
                 events, lastOp, delivered, usedIds, calls, sigVars, stepVars>>

\* The single-flight queue runs its oldest call: the _process body, then the
\* caller's continuation.
RunTask(r) ==
  /\ processQueue[r] # <<>>
  /\ LET task == Head(processQueue[r])
     IN /\ ApplyProcess(r, task.queue, task.skipFlush)
        /\ lastOp' = [lastOp EXCEPT ![r] =
             Call(task.op, task.key, task.value,
                  task.solo /\ Len(processQueue[r]) = 1)]
        /\ IF task.op = "process"
             THEN UNCHANGED <<bufferVars, net>>
             ELSE PushAndDequeue(r, task.queue[1], task.queue[2])
  /\ processQueue' = [processQueue EXCEPT ![r] = Tail(@)]
  /\ UNCHANGED <<clearKeys, now, delivered, usedIds, calls, sigVars, stepVars>>

\* The publish timer fires.
PublishTimer(r) ==
  /\ timers[r] > 0
  /\ Cardinality(net) < MaxNet
  /\ timers' = [timers EXCEPT ![r] = @ - 1]
  /\ Publish(r)
  /\ UNCHANGED <<pairs, deletions, size, processQueue, clearKeys, now,
                 events, lastOp, delivered, usedIds, calls, sigVars, stepVars>>

\* dump(): the live pairs in key order and the tombstones in id order.
RECURSIVE SortedIds(_)
SortedIds(S) ==
  IF S = {} THEN <<>>
  ELSE LET i == CHOOSE x \in S : \A y \in S : x <= y
       IN <<i>> \o SortedIds(S \ {i})
PairsOf(r, ks) == [n \in 1..Len(ks) |-> <<ks[n], pairs[r][ks[n]]>>]
DeletionsOf(r, is) == [n \in 1..Len(is) |-> <<is[n], deletions[r][is[n]]>>]
DumpPairsOnly(r) ==
  <<PairsOf(r, SortedKeys({k \in Keys : pairs[r][k] # NoPair})), <<>>>>
Dump(r) ==
  <<PairsOf(r, SortedKeys({k \in Keys : pairs[r][k] # NoPair})),
    DeletionsOf(r, SortedIds({i \in Ids : deletions[r][i] # NotFound}))>>

\* sync() without a queue publishes the dump.
Sync(r) ==
  /\ NewCall
  /\ Cardinality(net) < MaxNet
  /\ net' = net \cup {<<r, Dump(r)>>}
  /\ UNCHANGED <<pairs, deletions, size, bufferVars, processQueue, clearKeys,
                 now, events, lastOp, delivered, usedIds, sigVars, stepVars>>

Next ==
  \/ \E r \in Replicas, id \in Ids : SetCall(r, OpKey(id), OpValue(id), id)
  \/ \E r \in Replicas, key \in Keys : DeleteCall(r, key)
  \/ \E r \in Replicas : ClearCall(r)
  \/ \E r \in Replicas : ClearStep(r)
  \/ \E r \in Replicas : ProcessCall(r)
  \/ \E r \in Replicas : RunTask(r)
  \/ \E r \in Replicas : PublishTimer(r)
  \/ \E r \in Replicas : Sync(r)

Spec == InitReplicas /\ [][Next]_vars

\* The batch that set(key, value, id) hands to process when the live-pair
\* table is prs: the insertion and, when key has a pair, the deletion of its id.
SetBatch(prs, key, value, id) ==
  IF prs[key] # NoPair
    THEN <<<<InsertMessage(key, id, value)>>, <<DeleteMessage(prs[key][1], key)>>>>
    ELSE <<<<InsertMessage(key, id, value)>>, <<>>>>

DeleteBatchOfNothing(prs, key) == <<<<>>, <<>>>>

\* The batch that delete(key) hands to process: the deletion of the id of
\* key's pair; with no pair, delete returns without calling process.
DeleteBatch(prs, key) ==
  IF prs[key] # NoPair
    THEN <<<<>>, <<DeleteMessage(prs[key][1], key)>>>>
    ELSE <<<<>>, <<>>>>

\* The replica state that one run of the _process body leaves.
StateAfter(rs, queue, skipFlush) ==
  LET res == ProcessBody(rs, queue, skipFlush, now)
  IN [pairs |-> res.pairs, deletions |-> res.deletions, size |-> res.size]

\* The ids generateId can return next: later than every id issued so far.
FreshIds == {i \in Ids : \A u \in usedIds : IdLess(u, i)}

\* --------------------------------------------- replicas exchanging batches
\* set(key, value, id) called on an idle replica and awaited: the pair is
\* read, the single-flight queue runs the body at once, the messages are
\* pushed and dequeue runs.  The id comes from generateId, later than every
\* id issued before.
LocalSet(r, key, value, id) ==
  LET pair == pairs[r][key]
      ins == InsertMessage(key, id, value)
      queue == IF pair # NoPair
                 THEN <<<<ins>>, <<DeleteMessage(pair[1], key)>>>>
                 ELSE <<<<ins>>, <<>>>>
  IN /\ calls < MaxGossipCalls
     /\ calls' = calls + 1
     /\ Idle(r)
     /\ \A u \in usedIds : IdLess(u, id)
     /\ usedIds' = usedIds \cup {id}
     /\ ApplyProcess(r, queue, TRUE)
     /\ PushAndDequeue(r, queue[1], queue[2])
     /\ lastOp' = [lastOp EXCEPT ![r] = Call("set", key, value, TRUE)]
     /\ UNCHANGED <<processQueue, clearKeys, now, delivered, sigVars, stepVars>>

\* delete(key) called on an idle replica that holds a live pair for key, and
\* awaited.
LocalDelete(r, key) ==
  LET pair == pairs[r][key]
      queue == <<<<>>, <<DeleteMessage(pair[1], key)>>>>
  IN /\ calls < MaxGossipCalls
     /\ calls' = calls + 1
     /\ Idle(r)
     /\ pair # NoPair
     /\ ApplyProcess(r, queue, TRUE)
     /\ PushAndDequeue(r, queue[1], queue[2])
     /\ lastOp' = [lastOp EXCEPT ![r] = Call("delete", key, Undefined, TRUE)]
     /\ UNCHANGED <<processQueue, clearKeys, now, delivered, usedIds, sigVars, stepVars>>

\* The loop of clear() over the keys its iterator yields: delete(key) is
\* awaited for each, which reads the pair of the key and, when there is one,
\* runs process with its deletion and pushes the message.  acc = [rs, events,
\* pushed] carries the replica state, the events emitted and the messages
\* pushed.
RECURSIVE DeleteEach(_, _)
DeleteEach(acc, keys) ==
  IF keys = <<>> THEN acc
  ELSE LET queue == DeleteBatch(acc.rs.pairs, Head(keys))
           res == ProcessBody(acc.rs, queue, TRUE, now)
       IN DeleteEach([rs |-> [pairs |-> res.pairs, deletions |-> res.deletions,
                              size |-> res.size],
                      events |-> acc.events \o res.events,
                      pushed |-> acc.pushed \o queue[2]],
                     Tail(keys))

LocalClearFirstKeyOnly(r) ==
  LET keys == SortedKeys(LiveKeys(r))
      acc == DeleteEach([rs |-> ReplicaState(r), events |-> <<>>, pushed |-> <<>>],
                        IF keys = <<>> THEN keys ELSE <<Head(keys)>>)
  IN /\ calls < MaxGossipCalls
     /\ calls' = calls + 1
     /\ Idle(r)
     /\ pairs' = [pairs EXCEPT ![r] = acc.rs.pairs]
     /\ deletions' = [deletions EXCEPT ![r] = acc.rs.deletions]
     /\ size' = [size EXCEPT ![r] = acc.rs.size]
     /\ events' = [events EXCEPT ![r] = acc.events]
     /\ IF acc.pushed = <<>>
          THEN UNCHANGED <<bufferVars, net>>
          ELSE PushAndDequeue(r, <<>>, acc.pushed)
     /\ lastOp' = [lastOp EXCEPT ![r] = Call("clear", "", Undefined, TRUE)]
     /\ UNCHANGED <<processQueue, clearKeys, now, delivered, usedIds, sigVars, stepVars>>

\* clear() called on an idle replica and awaited.
LocalClear(r) ==
  LET keys == SortedKeys(LiveKeys(r))
      acc == DeleteEach([rs |-> ReplicaState(r), events |-> <<>>, pushed |-> <<>>], keys)
  IN /\ calls < MaxGossipCalls
     /\ calls' = calls + 1
     /\ Idle(r)
     /\ pairs' = [pairs EXCEPT ![r] = acc.rs.pairs]
     /\ deletions' = [deletions EXCEPT ![r] = acc.rs.deletions]
     /\ size' = [size EXCEPT ![r] = acc.rs.size]
     /\ events' = [events EXCEPT ![r] = acc.events]
     /\ IF acc.pushed = <<>>
          THEN UNCHANGED <<bufferVars, net>>
          ELSE PushAndDequeue(r, <<>>, acc.pushed)
     /\ lastOp' = [lastOp EXCEPT ![r] = Call("clear", "", Undefined, TRUE)]
     /\ UNCHANGED <<processQueue, clearKeys, now, delivered, usedIds, sigVars, stepVars>>

\* The publish timer fires and the transport takes the batch.
TimerPublish(r) ==
  /\ timers[r] > 0
  /\ timers' = [timers EXCEPT ![r] = @ - 1]
  /\ Publish(r)
  /\ UNCHANGED <<pairs, deletions, size, processQueue, clearKeys, now,
                 events, lastOp, delivered, usedIds, calls, sigVars, stepVars>>

\* The transport hands a published batch to the other replica's process, once,
\* after any delay and in any order.
Deliver(r) ==
  \E msg \in net :
    /\ msg[1] # r
    /\ Idle(r)
    /\ ApplyProcess(r, msg[2], FALSE)
    /\ net' = net \ {msg}
    /\ lastOp' = [lastOp EXCEPT ![r] = Call("process", "", Undefined, TRUE)]
    /\ UNCHANGED <<bufferVars, processQueue, clearKeys, now, delivered, usedIds,
                   calls, sigVars, stepVars>>

NextGossip ==
  \/ \E r \in Replicas, id \in Ids : LocalSet(r, OpKey(id), OpValue(id), id)
  \/ \E r \in Replicas, key \in Keys : LocalDelete(r, key)
  \/ \E r \in Replicas : LocalClear(r)
  \/ \E r \in Replicas : TimerPublish(r)
  \/ \E r \in Replicas : Deliver(r)

SpecGossip == InitReplicas /\ [][NextGossip]_vars

\* ---------------------------------------------- calls issued without await
\* The application issues its calls on alice without awaiting them, and the
\* same calls one after another on bob, awaiting each: bob is the sequential
\* run of what alice was asked to do.
SubmitSet(key, value, id) ==
  LET ins == InsertMessage(key, id, value)
      pairA == pairs["alice"][key]
      queueA == IF pairA # NoPair
                  THEN <<<<ins>>, <<DeleteMessage(pairA[1], key)>>>>
                  ELSE <<<<ins>>, <<>>>>
      pairB == pairs["bob"][key]
      queueB == IF pairB # NoPair
                  THEN <<<<ins>>, <<DeleteMessage(pairB[1], key)>>>>
                  ELSE <<<<ins>>, <<>>>>
  IN /\ calls < MaxSubmitCalls
     /\ calls' = calls + 1
     /\ \A u \in usedIds : IdLess(u, id)
     /\ usedIds' = usedIds \cup {id}
     /\ Enqueue("alice", Task("set", key, value, queueA, TRUE, Idle("alice")))
     /\ ApplyProcess("bob", queueB, TRUE)
     /\ PushAndDequeue("bob", queueB[1], queueB[2])
     /\ lastOp' = [lastOp EXCEPT !["bob"] = Call("set", key, value, TRUE)]
     /\ UNCHANGED <<clearKeys, now, delivered, sigVars, stepVars>>

SubmitDelete(key) ==
  LET pairA == pairs["alice"][key]
      pairB == pairs["bob"][key]
      queueB == <<<<>>, <<DeleteMessage(pairB[1], key)>>>>
  IN /\ calls < MaxSubmitCalls
     /\ calls' = calls + 1
     /\ IF pairA = NoPair
          THEN UNCHANGED processQueue
          ELSE Enqueue("alice", Task("delete", key, Undefined,
                                     <<<<>>, <<DeleteMessage(pairA[1], key)>>>>,
                                     TRUE, Idle("alice")))
     /\ IF pairB = NoPair
          THEN /\ events' = [events EXCEPT !["bob"] = <<>>]
               /\ UNCHANGED <<pairs, deletions, size, bufferVars, net>>
          ELSE /\ ApplyProcess("bob", queueB, TRUE)
               /\ PushAndDequeue("bob", queueB[1], queueB[2])
     /\ lastOp' = [lastOp EXCEPT !["bob"] = Call("delete", key, Undefined, TRUE)]
     /\ UNCHANGED <<clearKeys, now, delivered, usedIds, sigVars, stepVars>>

NextSubmit ==
  \/ \E id \in Ids : SubmitSet(OpKey(id), OpValue(id), id)
  \/ \E key \in Keys : SubmitDelete(key)
  \/ RunTask("alice")

SpecSubmit == InitReplicas /\ [][NextSubmit]_vars

\* ------------------------------------------- the single-flight queue, stepped
\* process(queue): processQueue.add puts the call on the queue.
SubmitProcess(r, queue) ==
  /\ Enqueue(r, Task("process", "", Undefined, queue, FALSE, Idle(r)))
  /\ UNCHANGED <<pairs, deletions, size, bufferVars, clearKeys, net, now,
                 events, lastOp, delivered, usedIds, calls, sigVars, stepVars>>

Execution(task) ==
  [queue |-> task.queue, skipFlush |-> task.skipFlush, stage |-> "tombstones"]

StartNextUnlimited(r) ==
  /\ processQueue[r] # <<>>
  /\ running' = [running EXCEPT ![r] = Append(@, Execution(Head(processQueue[r])))]
  /\ processQueue' = [processQueue EXCEPT ![r] = Tail(@)]
  /\ UNCHANGED <<pairs, deletions, size, bufferVars, clearKeys, net, now,
                 events, lastOp, delivered, usedIds, calls, sigVars, sizeScan,
                 readyPromise, shutdownCall, bufferPublishing, generatorVars,
                 sharedVars, signedQueueVars>>

\* The queue was made with concurrency 1: it starts its oldest waiting call
\* only while no call it started is still running.
StartNext(r) ==
  /\ processQueue[r] # <<>>
  /\ running[r] = <<>>
  /\ running' = [running EXCEPT ![r] = Append(@, Execution(Head(processQueue[r])))]
  /\ processQueue' = [processQueue EXCEPT ![r] = Tail(@)]
  /\ UNCHANGED <<pairs, deletions, size, bufferVars, clearKeys, net, now,
                 events, lastOp, delivered, usedIds, calls, sigVars, sizeScan,
                 readyPromise, shutdownCall, bufferPublishing, generatorVars,
                 sharedVars, signedQueueVars>>

RemoveAt(seq, n) == [m \in 1..(Len(seq) - 1) |-> IF m < n THEN seq[m] ELSE seq[m + 1]]

\* The n-th running execution of _process does its next pass over the store:
\* the tombstone writes, the insertions, the removals, and last the flush,
\* after which the call has finished.
StepBody(r, n) ==
  LET e == running[r][n]
      st0 == [pairs |-> pairs[r], size |-> size[r], events |-> events[r]]
      st1 == IF e.stage = "insertions" THEN InsertionPass(st0, deletions[r], e.queue[1])
             ELSE IF e.stage = "removals" THEN RemovalPass(st0, e.queue[2])
             ELSE IF e.stage = "tombstones" THEN [st0 EXCEPT !.events = <<>>]
             ELSE st0
      dels == IF e.stage = "tombstones" THEN TombstonePass(deletions[r], e.queue[2])
              ELSE IF e.stage = "flush" /\ ~e.skipFlush THEN Flush(deletions[r], now)
              ELSE deletions[r]
      next == IF e.stage = "tombstones" THEN "insertions"
              ELSE IF e.stage = "insertions" THEN "removals"
              ELSE "flush"
  IN /\ pairs' = [pairs EXCEPT ![r] = st1.pairs]
     /\ size' = [size EXCEPT ![r] = st1.size]
     /\ events' = [events EXCEPT ![r] = st1.events]
     /\ deletions' = [deletions EXCEPT ![r] = dels]
     /\ IF e.stage = "flush"
          THEN /\ running' = [running EXCEPT ![r] = RemoveAt(@, n)]
               /\ lastOp' = [lastOp EXCEPT ![r] = Call("process", "", Undefined, FALSE)]
          ELSE /\ running' = [running EXCEPT ![r][n].stage = next]
               /\ UNCHANGED lastOp
     /\ UNCHANGED <<bufferVars, processQueue, clearKeys, net, now, delivered,
                    usedIds, calls, sigVars, sizeScan, readyPromise, shutdownCall, bufferPublishing, generatorVars,
                 sharedVars, signedQueueVars>>

NextSteps ==
  \/ \E queue \in SingleRecordBatches : SubmitProcess("alice", queue)
  \/ StartNext("alice")
  \/ \E n \in 1..Len(running["alice"]) : StepBody("alice", n)

SpecSteps == InitReplicas /\ [][NextSteps]_vars

\* ------------------------------------------------------------------ startup
\* new ObservedRemoveMap(db) over the store an earlier instance, now shut
\* down, has filled: size starts at 0 and updateSize() opens its iterator over
\* the live pairs, which it will count as they are now.
Reopen(r) ==
  /\ Idle(r)
  /\ sizeScan[r] = NoScan
  /\ ~publishTimeout[r]
  /\ LiveKeys(r) # {}
  /\ size' = [size EXCEPT ![r] = 0]
  /\ sizeScan' = [sizeScan EXCEPT ![r] = <<Cardinality(LiveKeys(r))>>]
  /\ readyPromise' = [readyPromise EXCEPT ![r] = "pending"]
  /\ events' = [events EXCEPT ![r] = <<>>]
  /\ lastOp' = [lastOp EXCEPT ![r] = Call("constructor", "", Undefined, TRUE)]
  /\ UNCHANGED <<pairs, deletions, bufferVars, processQueue, clearKeys, net, now,
                 delivered, usedIds, calls, sigVars, running, shutdownCall, bufferPublishing, generatorVars,
                 sharedVars, signedQueueVars>>

\* updateSize() has walked its iterator and assigns the count to size; with
\* no initial entries readyPromise then resolves.
UpdateSize(r) ==
  /\ sizeScan[r] # NoScan
  /\ size' = [size EXCEPT ![r] = sizeScan[r][1]]
  /\ sizeScan' = [sizeScan EXCEPT ![r] = NoScan]
  /\ readyPromise' = [readyPromise EXCEPT ![r] = "resolved"]
  /\ UNCHANGED <<pairs, deletions, bufferVars, processQueue, clearKeys, net, now,
                 events, lastOp, delivered, usedIds, calls, sigVars, running,
                 shutdownCall, bufferPublishing, generatorVars,
                 sharedVars, signedQueueVars>>

\* One replica fed single records, reopened now and then.
NextStartup ==
  \/ \E queue \in SingleRecordBatches : Process("alice", queue)
  \/ Reopen("alice")
  \/ UpdateSize("alice")

SpecStartup == InitReplicas /\ [][NextStartup]_vars

\* -------------------------------------------------------------- set variant
\* ObservedRemoveSet keeps its pairs under the hash of the value; the keys of
\* the model stand for the hashes, and size is the number of pairs.
\* One insertion (hash, (id, value)) of process: 'add' is emitted only when
\* the hash had no pair.
SetVariantInsertOne(st, dels, msg) ==
  LET hash == msg[1]
      id == msg[2][1]
      value == msg[2][2]
      pair == st.pairs[hash]
  IN IF dels[id] # NotFound THEN st
     ELSE IF pair = NoPair
       THEN [pairs |-> [st.pairs EXCEPT ![hash] = <<id, value>>],
             size |-> st.size + 1,
             events |-> Append(st.events, <<"add", value, Undefined>>)]
     ELSE IF IdLess(pair[1], id)
       THEN [st EXCEPT !.pairs = [st.pairs EXCEPT ![hash] = <<id, value>>]]
     ELSE st

RECURSIVE SetVariantInsertionPass(_, _, _)
SetVariantInsertionPass(st, dels, insertions) ==
  IF insertions = <<>> THEN st
  ELSE SetVariantInsertionPass(SetVariantInsertOne(st, dels, Head(insertions)),
                               dels, Tail(insertions))

\* One deletion (id, hash) of the last loop of process.
SetVariantRemoveOne(st, msg) ==
  LET id == msg[1]
      hash == msg[2]
      pair == st.pairs[hash]
  IN IF pair # NoPair /\ pair[1] = id
       THEN [pairs |-> [st.pairs EXCEPT ![hash] = NoPair],
             size |-> st.size - 1,
             events |-> Append(st.events, <<"delete", pair[2]>>)]
     ELSE st

RECURSIVE SetVariantRemovalPass(_, _)
SetVariantRemovalPass(st, deletionQueue) ==
  IF deletionQueue = <<>> THEN st
  ELSE SetVariantRemovalPass(SetVariantRemoveOne(st, Head(deletionQueue)),
                             Tail(deletionQueue))

\* process(queue, skipFlush) of the set.
SetVariantProcessBody(rs, queue, skipFlush, t) ==
  LET dels == TombstonePass(rs.deletions, queue[2])
      st0 == [pairs |-> rs.pairs, size |-> rs.size, events |-> <<>>]
      st1 == SetVariantInsertionPass(st0, dels, queue[1])
      st2 == SetVariantRemovalPass(st1, queue[2])
  IN [pairs |-> st2.pairs,
      deletions |-> IF skipFlush THEN dels ELSE Flush(dels, t),
      size |-> st2.size,
      events |-> st2.events]

ApplySetVariantProcess(r, queue, skipFlush) ==
  LET res == SetVariantProcessBody(ReplicaState(r), queue, skipFlush, now)
  IN /\ pairs' = [pairs EXCEPT ![r] = res.pairs]
     /\ deletions' = [deletions EXCEPT ![r] = res.deletions]
     /\ size' = [size EXCEPT ![r] = res.size]
     /\ events' = [events EXCEPT ![r] = res.events]

\* process called with a batch a peer published.
SetVariantProcess(r, queue) ==
  /\ ApplySetVariantProcess(r, queue, FALSE)
  /\ lastOp' = [lastOp EXCEPT ![r] = Call("process", "", Undefined, TRUE)]
  /\ UNCHANGED <<bufferVars, processQueue, clearKeys, net, now, delivered, usedIds,
                 calls, sigVars, stepVars>>

\* add(value, id), where hash is the hash of value: process with the
\* insertion and, when the hash has a pair, the deletion of that pair's id;
\* then the messages are pushed and dequeue runs.
Add(r, hash, value, id) ==
  LET queue == SetBatch(pairs[r], hash, value, id)
  IN /\ NewCall
     /\ id \notin usedIds
     /\ usedIds' = usedIds \cup {id}
     /\ ApplySetVariantProcess(r, queue, TRUE)
     /\ PushAndDequeue(r, queue[1], queue[2])
     /\ lastOp' = [lastOp EXCEPT ![r] = Call("add", hash, value, TRUE)]
     /\ UNCHANGED <<processQueue, clearKeys, now, delivered, sigVars, stepVars>>

\* One set replica: its own add calls and single records from peers.
NextSetVariant ==
  \/ \E id \in Ids : Add("alice", OpKey(id), OpValue(id), id)
  \/ \E queue \in SingleRecordBatches : SetVariantProcess("alice", queue)

SpecSetVariant == InitReplicas /\ [][NextSetVariant]_vars

\* ----------------------------------------------------------------- shutdown
\* shutdown(): clearTimeout on the handle that publishTimeout holds, which
\* clears the timer and leaves the field as it is; then the call waits for
\* processQueue.onIdle().
ShutdownCall(r) ==
  /\ shutdownCall[r].state = "none"
  /\ timers' = [timers EXCEPT ![r] = IF publishTimeout[r] /\ @ > 0 THEN @ - 1 ELSE @]
  /\ UNCHANGED publishTimeout
  /\ shutdownCall' = [shutdownCall EXCEPT ![r] = [state |-> "draining", calls |-> calls]]
  /\ UNCHANGED <<pairs, deletions, size, insertQueue, deleteQueue, processQueue,
                 clearKeys, net, now, events, lastOp, delivered, usedIds, calls,
                 sigVars, running, sizeScan, readyPromise, bufferPublishing, generatorVars,
                 sharedVars, signedQueueVars>>

\* onIdle() resolves when the queue holds no call and runs none, and shutdown
\* returns.
ShutdownReturn(r) ==
  /\ shutdownCall[r].state = "draining"
  /\ processQueue[r] = <<>>
  /\ running[r] = <<>>
  /\ shutdownCall' = [shutdownCall EXCEPT ![r].state = "returned"]
  /\ lastOp' = [lastOp EXCEPT ![r] = Call("shutdown", "", Undefined, TRUE)]
  /\ events' = [events EXCEPT ![r] = <<>>]
  /\ UNCHANGED <<pairs, deletions, size, bufferVars, processQueue, clearKeys, net,
                 now, delivered, usedIds, calls, sigVars, running, sizeScan,
                 readyPromise, bufferPublishing, generatorVars,
                 sharedVars, signedQueueVars>>

\* One replica whose application issues set and delete calls without
\* awaiting them, and shuts the replica down.
NextShutdown ==
  \/ \E id \in Ids : SetCall("alice", OpKey(id), OpValue(id), id)
  \/ \E key \in Keys : DeleteCall("alice", key)
  \/ RunTask("alice")
  \/ PublishTimer("alice")
  \/ ShutdownCall("alice")
  \/ ShutdownReturn("alice")

SpecShutdown == InitReplicas /\ [][NextShutdown]_vars

\* ------------------------------------------------- flush and the clock
\* The wall clock advances.
Tick ==
  /\ now < MaxTime
  /\ now' = now + 1
  /\ UNCHANGED <<pairs, deletions, size, bufferVars, processQueue, clearKeys, net,
                 events, lastOp, delivered, usedIds, calls, sigVars, stepVars>>

\* flush() called by the application: the range delete over the tombstones,
\* at the current time, which the call records.
FlushCall(r) ==
  /\ deletions' = [deletions EXCEPT ![r] = Flush(@, now)]
  /\ events' = [events EXCEPT ![r] = <<>>]
  /\ lastOp' = [lastOp EXCEPT ![r] = Call("flush", "", now, Idle(r))]
  /\ UNCHANGED <<pairs, size, bufferVars, processQueue, clearKeys, net, now,
                 delivered, usedIds, calls, sigVars, stepVars>>

\* One replica fed single records, with flush calls, as time passes.
NextFlush ==
  \/ \E queue \in SingleRecordBatches : Process("alice", queue)
  \/ FlushCall("alice")
  \/ Tick

SpecFlush == InitReplicas /\ [][NextFlush]_vars

\* ------------------------------------------------------- signed variant
\* A signature is made over a payload with a private key.  The replicas are
\* configured with the public key of TrustedSigner (options.key); verify
\* accepts a signature exactly when that signer made it over that payload.
TrustedSigner == "owner"
Signers == {"owner", "mallory"}
Sign(signer, payload) == <<signer, payload>>
Verify(signature, payload) == signature = Sign(TrustedSigner, payload)

SignedInsertion(signature, id, key, value) == <<signature, id, key, value>>
SignedDeletion(signature, id, key) == <<signature, id, key>>

\* First loop of processSigned: each insertion is verified and, when it
\* verifies, its signature is put under N[id before the next one is looked
\* at.  The first signature that fails throws InvalidSignatureError.
RECURSIVE VerifyInsertions(_, _, _)
VerifyInsertions(sigs, signedInsertQueue, verified) ==
  IF signedInsertQueue = <<>>
    THEN [threw |-> FALSE, sigs |-> sigs, queue |-> verified]
  ELSE LET signature == Head(signedInsertQueue)[1]
           id == Head(signedInsertQueue)[2]
           key == Head(signedInsertQueue)[3]
           value == Head(signedInsertQueue)[4]
       IN IF ~Verify(signature, <<key, value, id>>)
            THEN [threw |-> TRUE, sigs |-> sigs, queue |-> verified]
          ELSE VerifyInsertions([sigs EXCEPT ![id] = signature],
                                Tail(signedInsertQueue),
                                Append(verified, InsertMessage(key, id, value)))

\* Second loop: the same for the deletions, whose signatures go under N]id.
RECURSIVE VerifyDeletionsUnchecked(_, _, _)
VerifyDeletionsUnchecked(sigs, signedDeleteQueue, verified) ==
  IF signedDeleteQueue = <<>>
    THEN [threw |-> FALSE, sigs |-> sigs, queue |-> verified]
  ELSE LET signature == Head(signedDeleteQueue)[1]
           id == Head(signedDeleteQueue)[2]
           key == Head(signedDeleteQueue)[3]
       IN VerifyDeletionsUnchecked([sigs EXCEPT ![id] = signature],
                                   Tail(signedDeleteQueue),
                                   Append(verified, DeleteMessage(id, key)))

RECURSIVE VerifyDeletions(_, _, _)
VerifyDeletions(sigs, signedDeleteQueue, verified) ==
  IF signedDeleteQueue = <<>>
    THEN [threw |-> FALSE, sigs |-> sigs, queue |-> verified]
  ELSE LET signature == Head(signedDeleteQueue)[1]
           id == Head(signedDeleteQueue)[2]
           key == Head(signedDeleteQueue)[3]
       IN IF ~Verify(signature, <<key, id>>)
            THEN [threw |-> TRUE, sigs |-> sigs, queue |-> verified]
          ELSE VerifyDeletions([sigs EXCEPT ![id] = signature],
                               Tail(signedDeleteQueue),
                               Append(verified, DeleteMessage(id, key)))

\* Last loop of processSigned, after process has returned: for each signed
\* insertion whose id the live pair of its key does not carry (no pair, or
\* another id), the entry N]id is deleted.
RECURSIVE PruneSignatures(_, _, _)
PruneSignatures(sigs, prs, signedInsertQueue) ==
  IF signedInsertQueue = <<>> THEN sigs
  ELSE LET id == Head(signedInsertQueue)[2]
           key == Head(signedInsertQueue)[3]
           pair == prs[key]
       IN PruneSignatures(IF pair = NoPair \/ pair[1] # id
                            THEN [sigs EXCEPT ![id] = NoSignature]
                            ELSE sigs,
                          prs, Tail(signedInsertQueue))

\* The body of processSigned on the replica state ss = [pairs, deletions,
\* size, insertionSigs, deletionSigs].  The flush that _process ends with is
\* the signed one, which clears the same id range of the tombstones and of the
\* deletion signatures.
ProcessSignedBody(ss, signedQueue, skipFlush, t) ==
  LET vi == VerifyInsertions(ss.insertionSigs, signedQueue[1], <<>>)
      vd == VerifyDeletions(ss.deletionSigs, signedQueue[2], <<>>)
      res == ProcessBody([pairs |-> ss.pairs, deletions |-> ss.deletions,
                          size |-> ss.size], <<vi.queue, vd.queue>>, skipFlush, t)
      flushed == IF skipFlush THEN vd.sigs ELSE FlushSignatures(vd.sigs, t)
  IN IF vi.threw
       THEN [pairs |-> ss.pairs, deletions |-> ss.deletions, size |-> ss.size,
             insertionSigs |-> vi.sigs, deletionSigs |-> ss.deletionSigs,
             events |-> <<>>, threw |-> TRUE]
     ELSE IF vd.threw
       THEN [pairs |-> ss.pairs, deletions |-> ss.deletions, size |-> ss.size,
             insertionSigs |-> vi.sigs, deletionSigs |-> vd.sigs,
             events |-> <<>>, threw |-> TRUE]
     ELSE [pairs |-> res.pairs, deletions |-> res.deletions, size |-> res.size,
           insertionSigs |-> vi.sigs,
           deletionSigs |-> PruneSignatures(flushed, res.pairs, signedQueue[1]),
           events |-> res.events, threw |-> FALSE]

SignedState(r) ==
  [pairs |-> pairs[r], deletions |-> deletions[r], size |-> size[r],
   insertionSigs |-> insertionSigs[r], deletionSigs |-> deletionSigs[r]]

\* The unsigned batch that a signed batch is translated into.
Unsigned(signedQueue) ==
  <<[n \in 1..Len(signedQueue[1]) |->
       InsertMessage(signedQueue[1][n][3], signedQueue[1][n][2], signedQueue[1][n][4])],
    [n \in 1..Len(signedQueue[2]) |->
       DeleteMessage(signedQueue[2][n][2], signedQueue[2][n][3])]>>

\* One run of processSigned on replica r; a call that threw delivered nothing.
ApplyProcessSigned(r, signedQueue, skipFlush) ==
  LET res == ProcessSignedBody(SignedState(r), signedQueue, skipFlush, now)
  IN /\ pairs' = [pairs EXCEPT ![r] = res.pairs]
     /\ deletions' = [deletions EXCEPT ![r] = res.deletions]
     /\ size' = [size EXCEPT ![r] = res.size]
     /\ insertionSigs' = [insertionSigs EXCEPT ![r] = res.insertionSigs]
     /\ deletionSigs' = [deletionSigs EXCEPT ![r] = res.deletionSigs]
     /\ events' = [events EXCEPT ![r] = res.events]
     /\ delivered' = IF res.threw THEN delivered
                     ELSE [delivered EXCEPT ![r] =
                            [ins |-> @.ins \cup InsIds(Unsigned(signedQueue)),
                             del |-> @.del \cup DelIds(Unsigned(signedQueue)),
                             late |-> @.late]]

Threw(r, signedQueue, skipFlush) ==
  ProcessSignedBody(SignedState(r), signedQueue, skipFlush, now).threw

\* The signed records over the operations of SignedIds, each signed by
\* either signer.
SignedIds == {1, 2}
SignedCatalogueInsertions ==
  {SignedInsertion(Sign(s, <<OpKey(i), OpValue(i), i>>), i, OpKey(i), OpValue(i)) :
     s \in Signers, i \in SignedIds}
SignedCatalogueDeletions ==
  {SignedDeletion(Sign(s, <<OpKey(i), i>>), i, OpKey(i)) :
     s \in Signers, i \in SignedIds}
\* Every signed batch of at most MaxSignedBatch records.
SignedBatches ==
  UNION {{<<ins, del>> : ins \in [1..m -> SignedCatalogueInsertions],
                         del \in UNION {[1..d -> SignedCatalogueDeletions] :
                                          d \in 0..(MaxSignedBatch - m)}}
         : m \in 0..MaxSignedBatch}

\* processSigned(signedQueue) called on an idle replica.
ProcessSigned(r, signedQueue) ==
  /\ ApplyProcessSigned(r, signedQueue, FALSE)
  /\ lastOp' = [lastOp EXCEPT ![r] =
       [Call("processSigned", "", Undefined, TRUE)
          EXCEPT !.threw = Threw(r, signedQueue, FALSE)]]
  /\ UNCHANGED <<bufferVars, processQueue, clearKeys, net, now, usedIds, calls,
                 stepVars>>

\* The application makes one more signed call.
NewSignedCall == calls < MaxSignedCalls /\ calls' = calls + 1

SetSignedCallPushingRejected(r, key, value, id, signature) ==
  LET message == SignedInsertion(signature, id, key, value)
      signedQueue == <<<<message>>, <<>>>>
  IN /\ Idle(r)
     /\ ApplyProcessSigned(r, signedQueue, TRUE)
     /\ lastOp' = [lastOp EXCEPT ![r] =
          [Call("setSigned", key, value, TRUE)
             EXCEPT !.threw = Threw(r, signedQueue, TRUE)]]
     /\ PushAndDequeue(r, <<message>>, <<>>)
     /\ UNCHANGED <<processQueue, clearKeys, now, usedIds, stepVars>>

\* setSigned(key, value, id, signature): processSigned with the one insertion
\* and skipFlush; only when it returns is the message pushed and dequeue run.
SetSignedCall(r, key, value, id, signature) ==
  LET message == SignedInsertion(signature, id, key, value)
      signedQueue == <<<<message>>, <<>>>>
  IN /\ Idle(r)
     /\ ApplyProcessSigned(r, signedQueue, TRUE)
     /\ lastOp' = [lastOp EXCEPT ![r] =
          [Call("setSigned", key, value, TRUE)
             EXCEPT !.threw = Threw(r, signedQueue, TRUE)]]
     /\ IF Threw(r, signedQueue, TRUE)
          THEN UNCHANGED <<bufferVars, net>>
          ELSE PushAndDequeue(r, <<message>>, <<>>)
     /\ UNCHANGED <<processQueue, clearKeys, now, usedIds, stepVars>>

SetSigned(r, key, value, id, signature) ==
  NewSignedCall /\ SetSignedCall(r, key, value, id, signature)

\* deleteSigned(key, id, signature): the same with the one deletion.
DeleteSignedCall(r, key, id, signature) ==
  LET message == SignedDeletion(signature, id, key)
      signedQueue == <<<<>>, <<message>>>>
  IN /\ Idle(r)
     /\ ApplyProcessSigned(r, signedQueue, TRUE)
     /\ lastOp' = [lastOp EXCEPT ![r] =
          [Call("deleteSigned", key, Undefined, TRUE)
             EXCEPT !.threw = Threw(r, signedQueue, TRUE)]]
     /\ IF Threw(r, signedQueue, TRUE)
          THEN UNCHANGED <<bufferVars, net>>
          ELSE PushAndDequeue(r, <<>>, <<message>>)
     /\ UNCHANGED <<processQueue, clearKeys, now, usedIds, stepVars>>

DeleteSigned(r, key, id, signature) ==
  NewSignedCall /\ DeleteSignedCall(r, key, id, signature)

\* A call that ended in an exception.
Thrown(op) == [Call(op, "", Undefined, TRUE) EXCEPT !.threw = TRUE]

\* clear(), set() and delete() of the signed variant only throw.
UnsupportedClear(r) ==
  /\ NewSignedCall
  /\ Idle(r)
  /\ lastOp' = [lastOp EXCEPT ![r] = Thrown("clear")]
  /\ events' = [events EXCEPT ![r] = <<>>]
  /\ UNCHANGED <<pairs, deletions, size, bufferVars, processQueue, clearKeys, net,
                 now, delivered, usedIds, sigVars, stepVars>>

UnsupportedSetInherited(r) ==
  /\ NewSignedCall
  /\ Idle(r)
  /\ \E id \in SignedIds :
       LET queue == SetBatch(pairs[r], OpKey(id), OpValue(id), id)
       IN /\ ApplyProcess(r, queue, TRUE)
          /\ PushAndDequeue(r, queue[1], queue[2])
          /\ lastOp' = [lastOp EXCEPT ![r] = Call("set", OpKey(id), OpValue(id), TRUE)]
  /\ UNCHANGED <<processQueue, clearKeys, now, delivered, usedIds, sigVars, stepVars>>

UnsupportedSet(r) ==
  /\ NewSignedCall
  /\ Idle(r)
  /\ lastOp' = [lastOp EXCEPT ![r] = Thrown("set")]
  /\ events' = [events EXCEPT ![r] = <<>>]
  /\ UNCHANGED <<pairs, deletions, size, bufferVars, processQueue, clearKeys, net,
                 now, delivered, usedIds, sigVars, stepVars>>

UnsupportedDelete(r) ==
  /\ NewSignedCall
  /\ Idle(r)
  /\ lastOp' = [lastOp EXCEPT ![r] = Thrown("delete")]
  /\ events' = [events EXCEPT ![r] = <<>>]
  /\ UNCHANGED <<pairs, deletions, size, bufferVars, processQueue, clearKeys, net,
                 now, delivered, usedIds, sigVars, stepVars>>

\* The constructor's loop over its initial entries: setSigned is called for
\* each, which is processSigned with the one insertion and skipFlush, and the
\* push of the message when that returned.  acc = [ss, events, rejected,
\* pushed] carries the replica state, the events emitted, whether a call
\* rejected, and the messages pushed.
RECURSIVE ApplyEntries(_, _, _)
ApplyEntries(acc, entries, t) ==
  IF entries = <<>> THEN acc
  ELSE LET res == ProcessSignedBody(acc.ss, <<<<Head(entries)>>, <<>>>>, TRUE, t)
       IN ApplyEntries(
            [ss |-> [pairs |-> res.pairs, deletions |-> res.deletions,
                     size |-> res.size, insertionSigs |-> res.insertionSigs,
                     deletionSigs |-> res.deletionSigs],
             events |-> acc.events \o res.events,
             rejected |-> acc.rejected \/ res.threw,
             pushed |-> IF res.threw THEN acc.pushed ELSE Append(acc.pushed, Head(entries))],
            Tail(entries), t)

\* new SignedObservedRemoveMap(db, entries, options) over the store, followed
\* to the settling of readyPromise: updateSize counts the live pairs, every
\* entry goes through setSigned, and readyPromise is the Promise.all of those
\* calls: it rejects when one of them rejected.  Nothing catches the failure
\* and nothing emits 'error'.
ConstructSigned(r, entries) ==
  LET ss0 == [SignedState(r) EXCEPT !.size = Cardinality(LiveKeys(r))]
      acc == ApplyEntries([ss |-> ss0, events |-> <<>>, rejected |-> FALSE,
                           pushed |-> <<>>], entries, now)
  IN /\ NewSignedCall
     /\ Idle(r)
     /\ ~publishTimeout[r]
     /\ entries # <<>>
     /\ pairs' = [pairs EXCEPT ![r] = acc.ss.pairs]
     /\ deletions' = [deletions EXCEPT ![r] = acc.ss.deletions]
     /\ size' = [size EXCEPT ![r] = acc.ss.size]
     /\ insertionSigs' = [insertionSigs EXCEPT ![r] = acc.ss.insertionSigs]
     /\ deletionSigs' = [deletionSigs EXCEPT ![r] = acc.ss.deletionSigs]
     /\ events' = [events EXCEPT ![r] = acc.events]
     /\ readyPromise' = [readyPromise EXCEPT ![r] =
          IF acc.rejected THEN "rejected" ELSE "resolved"]
     /\ lastOp' = [lastOp EXCEPT ![r] = Call("constructor", "", Undefined, TRUE)]
     /\ IF acc.pushed = <<>>
          THEN UNCHANGED <<bufferVars, net>>
          ELSE PushAndDequeue(r, acc.pushed, <<>>)
     /\ UNCHANGED <<processQueue, clearKeys, now, delivered, usedIds, running, sizeScan,
                    shutdownCall, bufferPublishing, generatorVars,
                 sharedVars, signedQueueVars>>

\* One signed replica: batches from the network and its own signed calls.
NextSigned ==
  \/ \E signedQueue \in SignedBatches : ProcessSigned("alice", signedQueue)
  \/ \E m \in SignedCatalogueInsertions : SetSigned("alice", m[3], m[4], m[2], m[1])
  \/ \E m \in SignedCatalogueDeletions : DeleteSigned("alice", m[3], m[2], m[1])

SpecSigned == InitReplicas /\ [][NextSigned]_vars

\* The signed batches that carry one record.
SingleSignedBatches == {q \in SignedBatches : Len(q[1]) + Len(q[2]) = 1}

\* One signed replica fed single records, on which the application constructs
\* a new instance or calls a mutator of the unsigned map.
NextSignedCalls ==
  \/ \E signedQueue \in SingleSignedBatches : ProcessSigned("alice", signedQueue)
  \/ UnsupportedClear("alice")
  \/ UnsupportedSet("alice")
  \/ UnsupportedDelete("alice")
  \/ \E signedQueue \in SignedBatches : ConstructSigned("alice", signedQueue[1])

SpecSignedCalls == InitReplicas /\ [][NextSignedCalls]_vars

\* ------------------------------------------------------- publish buffer
\* Each replica is constructed with bufferPublishing 0 (publish at once) or
\* with the default.
InitPublish ==
  /\ InitStores
  /\ bufferPublishing \in [Replicas -> {0, BufferPublishing}]

NewPublishCall == calls < MaxPublishCalls /\ calls' = calls + 1

\* alice is a map whose application calls set and delete without awaiting
\* them; bob is a signed map whose application calls setSigned and
\* deleteSigned; the publish timers fire when they are due.
NextPublish ==
  \/ \E id \in Ids : SetCall("alice", OpKey(id), OpValue(id), id)
  \/ \E key \in Keys : DeleteCall("alice", key)
  \/ RunTask("alice")
  \/ \E m \in SignedCatalogueInsertions :
       NewPublishCall /\ SetSignedCall("bob", m[3], m[4], m[2], m[1])
  \/ \E m \in SignedCatalogueDeletions :
       NewPublishCall /\ DeleteSignedCall("bob", m[3], m[2], m[1])
  \/ \E r \in Replicas : TimerPublish(r)

SpecPublish == InitPublish /\ [][NextPublish]_vars

\* ------------------------------------------------------- rejected calls
NewQueuedCall == calls < MaxQueuedCalls /\ calls' = calls + 1

\* process(queue) called by the application, which does not await it.
QueueProcess(r, queue) ==
  /\ NewQueuedCall
  /\ Enqueue(r, Task("process", "", Undefined, queue, FALSE, Idle(r)))
  /\ UNCHANGED <<pairs, deletions, size, bufferVars, clearKeys, net, now,
                 events, lastOp, delivered, usedIds, sigVars, stepVars>>

\* The store fails under the n-th running execution of _process at its next
\* access: the error is rethrown, the call is rejected with what it wrote so
\* far left in the store, and the queue is done with it.
RejectBody(r, n) ==
  /\ n \in 1..Len(running[r])
  /\ running' = [running EXCEPT ![r] = RemoveAt(@, n)]
  /\ lastOp' = [lastOp EXCEPT ![r] =
       [Call("process", "", Undefined, FALSE) EXCEPT !.threw = TRUE]]
  /\ UNCHANGED <<pairs, deletions, size, bufferVars, processQueue, clearKeys, net,
                 now, events, delivered, usedIds, calls, sigVars, sizeScan,
                 readyPromise, shutdownCall, bufferPublishing, generatorVars,
                 sharedVars, signedQueueVars>>

SignedTask(op, signedQueue, skipFlush) ==
  [op |-> op, queue |-> signedQueue, skipFlush |-> skipFlush, stage |-> "verify"]

\* processSigned(signedQueue, skipFlush) of the built signed map: the call is
\* added to signedProcessQueue.  setSigned calls it with its one message and
\* skipFlush.
QueueProcessSigned(r, op, signedQueue, skipFlush) ==
  /\ NewQueuedCall
  /\ Len(signedProcessQueue[r]) < MaxPending
  /\ signedProcessQueue' = [signedProcessQueue EXCEPT ![r] =
       Append(@, SignedTask(op, signedQueue, skipFlush))]
  /\ UNCHANGED <<pairs, deletions, size, bufferVars, processQueue, clearKeys, net,
                 now, events, lastOp, delivered, usedIds, sigVars, running,
                 sizeScan, readyPromise, shutdownCall, bufferPublishing, generatorVars,
                 sharedVars,
                 signedRunning>>

StartNextSignedAfterSuccessOnly(r) ==
  /\ signedProcessQueue[r] # <<>>
  /\ signedRunning[r] = <<>>
  /\ ~lastOp[r].threw
  /\ signedRunning' = [signedRunning EXCEPT ![r] = <<Head(signedProcessQueue[r])>>]
  /\ signedProcessQueue' = [signedProcessQueue EXCEPT ![r] = Tail(@)]
  /\ UNCHANGED <<pairs, deletions, size, bufferVars, processQueue, clearKeys, net,
                 now, events, lastOp, delivered, usedIds, calls, sigVars, running,
                 sizeScan, readyPromise, shutdownCall, bufferPublishing, generatorVars,
                 sharedVars>>

\* signedProcessQueue was made with concurrency 1: it starts its oldest
\* waiting call while no call it started is still running, whether the calls
\* before it returned or were rejected.
StartNextSigned(r) ==
  /\ signedProcessQueue[r] # <<>>
  /\ signedRunning[r] = <<>>
  /\ signedRunning' = [signedRunning EXCEPT ![r] = <<Head(signedProcessQueue[r])>>]
  /\ signedProcessQueue' = [signedProcessQueue EXCEPT ![r] = Tail(@)]
  /\ UNCHANGED <<pairs, deletions, size, bufferVars, processQueue, clearKeys, net,
                 now, events, lastOp, delivered, usedIds, calls, sigVars, running,
                 sizeScan, readyPromise, shutdownCall, bufferPublishing, generatorVars,
                 sharedVars>>

\* The two verify loops of _processSigned.  A signature that fails throws
\* InvalidSignatureError and the call is rejected, the signatures verified
\* before it having been written; otherwise all are written and the call goes
\* on to super.process.
VerifyStep(r) ==
  /\ signedRunning[r] # <<>>
  /\ signedRunning[r][1].stage = "verify"
  /\ LET task == signedRunning[r][1]
         res == ProcessSignedBody(SignedState(r), task.queue, task.skipFlush, now)
         vi == VerifyInsertions(insertionSigs[r], task.queue[1], <<>>)
         vd == VerifyDeletions(deletionSigs[r], task.queue[2], <<>>)
     IN IF res.threw
          THEN /\ insertionSigs' = [insertionSigs EXCEPT ![r] = res.insertionSigs]
               /\ deletionSigs' = [deletionSigs EXCEPT ![r] = res.deletionSigs]
               /\ signedRunning' = [signedRunning EXCEPT ![r] = <<>>]
               /\ lastOp' = [lastOp EXCEPT ![r] =
                    [Call(task.op, "", Undefined, FALSE) EXCEPT !.threw = TRUE]]
        ELSE /\ insertionSigs' = [insertionSigs EXCEPT ![r] = vi.sigs]
             /\ deletionSigs' = [deletionSigs EXCEPT ![r] = vd.sigs]
             /\ signedRunning' = [signedRunning EXCEPT ![r][1].stage = "process"]
             /\ UNCHANGED lastOp
  /\ UNCHANGED <<pairs, deletions, size, bufferVars, processQueue, clearKeys, net,
                 now, events, delivered, usedIds, calls, running, sizeScan,
                 readyPromise, shutdownCall, bufferPublishing, generatorVars,
                 sharedVars, signedProcessQueue>>

\* super.process and the cleanup loop of the running call, the process queue
\* of the signed map holding no other call; then the call returns, and
\* setSigned pushes its message and runs dequeue.
ProcessStep(r) ==
  /\ signedRunning[r] # <<>>
  /\ signedRunning[r][1].stage = "process"
  /\ processQueue[r] = <<>>
  /\ LET task == signedRunning[r][1]
     IN /\ ApplyProcessSigned(r, task.queue, task.skipFlush)
        /\ lastOp' = [lastOp EXCEPT ![r] = Call(task.op, "", Undefined, FALSE)]
        /\ IF task.op = "setSigned"
             THEN PushAndDequeue(r, task.queue[1], task.queue[2])
             ELSE UNCHANGED <<bufferVars, net>>
  /\ signedRunning' = [signedRunning EXCEPT ![r] = <<>>]
  /\ UNCHANGED <<processQueue, clearKeys, now, usedIds, calls, running, sizeScan,
                 readyPromise, shutdownCall, bufferPublishing, generatorVars,
                 sharedVars, signedProcessQueue>>

\* The store fails under super.process at its first access: the error is
\* rethrown through _processSigned and the call is rejected.
ProcessStepRejected(r) ==
  /\ signedRunning[r] # <<>>
  /\ signedRunning[r][1].stage = "process"
  /\ signedRunning' = [signedRunning EXCEPT ![r] = <<>>]
  /\ lastOp' = [lastOp EXCEPT ![r] =
       [Call(signedRunning[r][1].op, "", Undefined, FALSE) EXCEPT !.threw = TRUE]]
  /\ UNCHANGED <<pairs, deletions, size, bufferVars, processQueue, clearKeys, net,
                 now, events, delivered, usedIds, calls, sigVars, running, sizeScan,
                 readyPromise, shutdownCall, bufferPublishing, generatorVars,
                 sharedVars, signedProcessQueue>>

\* alice is a map and bob a signed map built with an entries list; their
\* applications call process, processSigned and setSigned without awaiting
\* them, the queues run the calls, and the store may fail under any of them.
NextQueued ==
  \/ \E id \in SignedIds :
       QueueProcess("alice", <<<<InsertMessage(OpKey(id), id, OpValue(id))>>, <<>>>>)
  \/ StartNext("alice")
  \/ \E n \in 1..Len(running["alice"]) : StepBody("alice", n)
  \/ \E n \in 1..Len(running["alice"]) : RejectBody("alice", n)
  \/ \E m \in SignedCatalogueDeletions :
       QueueProcessSigned("bob", "processSigned", <<<<>>, <<m>>>>, FALSE)
  \/ \E m \in SignedCatalogueInsertions :
       QueueProcessSigned("bob", "setSigned", <<<<m>>, <<>>>>, TRUE)
  \/ StartNextSigned("bob")
  \/ VerifyStep("bob")
  \/ ProcessStep("bob")
  \/ ProcessStepRejected("bob")

SpecQueued == InitReplicas /\ [][NextQueued]_vars

\* A step by which a queue of r starts a call or a started call goes on; the
\* store does not fail in it.
QueueStep(r) ==
  \/ StartNext(r)
  \/ \E n \in 1..Len(running[r]) : StepBody(r, n)
  \/ StartNextSigned(r)
  \/ VerifyStep(r)
  \/ ProcessStep(r)

\* -------------------------------------------------------- identifiers
\* Strings of base-36 digits are sequences of the digits' values: the
\* characters 0-9 and a-z have increasing code units, so the order of two
\* digits is the order of their values.
Base == 36
IdLength == 20
TimestampLength == 9

\* Number.prototype.toString(36) of a non-negative integer.
RECURSIVE ToString36(_)
ToString36(n) ==
  IF n < Base THEN <<n>> ELSE ToString36(n \div Base) \o <<n % Base>>

\* String.prototype.padStart(length, '0').
PadStart(str, length) ==
  IF Len(str) >= length THEN str
  ELSE [i \in 1..(length - Len(str)) |-> 0] \o str

\* String.prototype.slice(0, end).
Slice(str, end) == SubSeq(str, 1, IF Len(str) < end THEN Len(str) ELSE end)

\* Math.round(MAX_SAFE_INTEGER / 2 + MAX_SAFE_INTEGER * Math.random() / 2)
\* in base 36: eleven digits between 18ce53un18g and 2gosa7pa2gw, of which
\* these are four.
RandomStrings ==
  { <<1, 9>> \o [i \in 1..9 |-> 0],
    <<1, 35>> \o [i \in 1..9 |-> 35],
    <<2, 0>> \o [i \in 1..9 |-> 35],
    <<2, 16>> \o [i \in 1..9 |-> 0] }

\* The id built by add from the clock, the counter and the random string.
GenerateId(date, counter, randomString) ==
  Slice(PadStart(ToString36(date), TimestampLength) \o ToString36(counter)
          \o randomString, IdLength)

\* The < of two strings: at the first position where they differ the
\* smaller code unit decides, and a proper prefix is smaller.
StringLess(a, b) ==
  \E n \in 1..(Len(b)) :
    /\ \A i \in 1..(n - 1) : i <= Len(a) /\ a[i] = b[i]
    /\ \/ n = Len(a) + 1
       \/ n <= Len(a) /\ a[n] < b[n]

\* One id is generated: the lines of add that build it and count it.  The
\* last two ids of the process are kept.
GenerateIdCall ==
  /\ idCounter < MaxIdCounter
  /\ \E randomString \in RandomStrings :
       generated' = (IF generated = <<>> THEN <<>>
                     ELSE <<generated[Len(generated)]>>)
                      \o <<GenerateId(now, idCounter, randomString)>>
  /\ idCounter' = idCounter + 1
  /\ UNCHANGED <<pairs, deletions, size, bufferVars, processQueue, clearKeys, net,
                 now, events, lastOp, delivered, usedIds, calls, sigVars, running,
                 sizeScan, readyPromise, shutdownCall, bufferPublishing,
                 sharedVars, signedQueueVars>>

\* A process generates ids while its clock goes on.
NextGenerateId == GenerateIdCall \/ Tick

SpecGenerateId == InitReplicas /\ [][NextGenerateId]_vars

\* ------------------------------------------------------ the shared store
\* Store keys are strings, here sequences of code units: a namespace, one of
\* the separators and an application key or an id.
LessThanSign == 60
GreaterThanSign == 62
LeftBracket == 91
RightBracket == 93
Separators == {GreaterThanSign, LessThanSign, LeftBracket, RightBracket}

\* The namespaces "", "a" and "a>b", and the application keys "k", "x".
Namespaces == {<<>>, <<97>>, <<97, GreaterThanSign, 98>>}
AppKeys == {<<107>>, <<120>>}
IdCounters == {0}

\* The code units of a string of base-36 digits.
CodeUnits(digits) ==
  [i \in 1..Len(digits) |-> IF digits[i] < 10 THEN 48 + digits[i] ELSE 87 + digits[i]]

\* An id passed to set: the padded clock and a counter.
IdString(date, counter) ==
  CodeUnits(Slice(PadStart(ToString36(date), TimestampLength)
                    \o ToString36(counter), IdLength))

PairKey(r, key) == namespace[r] \o <<GreaterThanSign>> \o key
TombstoneKey(r, id) == namespace[r] \o <<LessThanSign>> \o id

\* db.get, db.put, db.del, and the entries an iterator or a clear with the
\* bounds gt and lt goes over.
DbGet(store, key) == {e \in store : e.key = key}
DbPut(store, key, value, r) ==
  {e \in store : e.key # key} \cup {[key |-> key, value |-> value, writer |-> r]}
DbDel(store, key) == {e \in store : e.key # key}
DbRange(store, gt, lt) ==
  {e \in store : StringLess(gt, e.key) /\ StringLess(e.key, lt)}

\* The range N || sep .. N || next(sep) of a namespace.
PrefixRange(store, r, sep) ==
  DbRange(store, namespace[r] \o <<sep>>, namespace[r] \o <<sep + 1>>)

\* The entries among es that an operation of r read, overwrote or deleted.
Accessed(es, r) == {[key |-> e.key, writer |-> e.writer, by |-> r] : e \in es}

NewSharedCall == calls < MaxSharedCalls /\ calls' = calls + 1

\* _process of the batch of set: the tombstone of the replaced pair, the
\* insertion, the removal, in the stores written one after the other.
SetStores(r, key, id) ==
  LET found == DbGet(db, PairKey(r, key))
      old == CHOOSE e \in found : TRUE
      store1 == IF found = {} THEN db
                ELSE DbPut(db, TombstoneKey(r, old.value), key, r)
      deleted == DbGet(store1, TombstoneKey(r, id))
      pair == DbGet(store1, PairKey(r, key))
      writes == /\ deleted = {}
                /\ \A e \in pair : StringLess(e.value, id)
      store2 == IF writes THEN DbPut(store1, PairKey(r, key), id, r) ELSE store1
      removes == /\ found # {}
                 /\ \E e \in DbGet(store2, PairKey(r, key)) : e.value = old.value
      store3 == IF removes THEN DbDel(store2, PairKey(r, key)) ELSE store2
  IN [store |-> store3,
      grows |-> IF writes /\ pair = {} THEN 1 ELSE 0,
      shrinks |-> IF removes THEN 1 ELSE 0,
      accessed |->
        found \cup deleted
          \cup (IF found = {} THEN {} ELSE DbGet(db, TombstoneKey(r, old.value)))]

sharedFrame ==
  <<pairs, deletions, bufferVars, processQueue, clearKeys, net, now, events,
    lastOp, delivered, usedIds, sigVars, running, sizeScan, readyPromise,
    shutdownCall, bufferPublishing, generatorVars, signedQueueVars, namespace>>

\* set(key, value, id) of replica r, awaited.
SharedSet(r, key, id) ==
  /\ NewSharedCall
  /\ LET res == SetStores(r, key, id)
     IN /\ db' = res.store
        /\ size' = [size EXCEPT ![r] = @ + res.grows - res.shrinks]
        /\ lastAccess' = Accessed(res.accessed, r)
  /\ UNCHANGED sharedFrame

\* delete(key) of replica r, awaited: nothing for an absent key; otherwise
\* the tombstone of the pair is written and the pair deleted.
SharedDelete(r, key) ==
  /\ NewSharedCall
  /\ LET found == DbGet(db, PairKey(r, key))
         old == CHOOSE e \in found : TRUE
     IN IF found = {}
          THEN /\ lastAccess' = {}
               /\ UNCHANGED <<db, size>>
        ELSE /\ db' = DbDel(DbPut(db, TombstoneKey(r, old.value), key, r),
                            PairKey(r, key))
             /\ size' = [size EXCEPT ![r] = @ - 1]
             /\ lastAccess' =
                  Accessed(found \cup DbGet(db, TombstoneKey(r, old.value)), r)
  /\ UNCHANGED sharedFrame

\* flush of replica r: the clear of its tombstones older than maxAge.
SharedFlush(r) ==
  /\ NewSharedCall
  /\ now >= MaxAge
  /\ LET maxAgeString == CodeUnits(PadStart(ToString36(now - MaxAge), TimestampLength))
         cleared == DbRange(db, namespace[r] \o <<LessThanSign>>,
                            namespace[r] \o <<LessThanSign>> \o maxAgeString)
     IN /\ db' = db \ cleared
        /\ lastAccess' = Accessed(cleared, r)
  /\ UNCHANGED <<sharedFrame, size>>

\* dump of replica r: the iterators of pairs and of deletions.
SharedDump(r) ==
  /\ NewSharedCall
  /\ lastAccess' = Accessed(PrefixRange(db, r, GreaterThanSign)
                              \cup PrefixRange(db, r, LessThanSign), r)
  /\ UNCHANGED <<sharedFrame, size, db>>

\* updateSize of replica r: the size is the number of keys its iterator
\* goes over.
SharedUpdateSize(r) ==
  /\ NewSharedCall
  /\ size' = [size EXCEPT ![r] = Cardinality(PrefixRange(db, r, GreaterThanSign))]
  /\ lastAccess' = Accessed(PrefixRange(db, r, GreaterThanSign), r)
  /\ UNCHANGED <<sharedFrame, db>>

\* Two replicas made with distinct namespaces on one store.
InitShared ==
  /\ InitMaps
  /\ InitGenerator
  /\ bufferPublishing = [r \in Replicas |-> BufferPublishing]
  /\ namespace \in {f \in [Replicas -> Namespaces] :
                      \A r, q \in Replicas : r # q => f[r] # f[q]}
  /\ db = {}
  /\ lastAccess = {}

NextShared ==
  \/ \E r \in Replicas, key \in AppKeys, counter \in IdCounters :
       SharedSet(r, key, IdString(now, counter))
  \/ \E r \in Replicas, key \in AppKeys : SharedDelete(r, key)
  \/ \E r \in Replicas : SharedFlush(r)
  \/ \E r \in Replicas : SharedDump(r)
  \/ \E r \in Replicas : SharedUpdateSize(r)
  \/ Tick

SpecShared == InitShared /\ [][NextShared]_vars

\* ================================================= properties of process
MaxOf(S) == CHOOSE x \in S : \A y \in S : y <= x
EventTypes(evs) == {evs[n][1] : n \in 1..Len(evs)}
Tombstoned(r) == {i \in Ids : deletions[r][i] # NotFound}
LiveIds(r) == {pairs[r][k][1] : k \in {kk \in Keys : pairs[r][kk] # NoPair}}

\* C1: two replicas that have processed the same insertion records and the
\* same deletion records, in any order, hold equal live-pair tables and equal
\* tombstone tables.
C1_Convergence ==
  (/\ delivered["alice"].ins = delivered["bob"].ins
   /\ delivered["alice"].del = delivered["bob"].del)
  => (/\ pairs["alice"] = pairs["bob"]
      /\ deletions["alice"] = deletions["bob"])

\* C2: the live pair of every key is the insertion with the largest id among
\* the insertions processed so far for that key whose id has no tombstone,
\* and the key has no live pair only when there is no such insertion.
C2_LivePairIsLargestUntombstoned ==
  \A k \in Keys :
    LET cand == {i \in delivered["alice"].ins :
                   OpKey(i) = k /\ deletions["alice"][i] = NotFound}
    IN pairs["alice"][k] =
         IF cand = {} THEN NoPair ELSE <<MaxOf(cand), OpValue(MaxOf(cand))>>

\* C3: a replica that has processed exactly two insertions for a key, with
\* ids i1 < i2, and no deletion, in either order and in one batch or two,
\* holds the live pair (i2, value2) for that key.
C3_LargerIdWins ==
  \A i1, i2 \in Ids :
    (/\ IdLess(i1, i2)
     /\ OpKey(i1) = OpKey(i2)
     /\ {i \in delivered["alice"].ins : OpKey(i) = OpKey(i1)} = {i1, i2}
     /\ delivered["alice"].del = {})
    => pairs["alice"][OpKey(i2)] = <<i2, OpValue(i2)>>

C3_Witness ==
  /\ delivered["alice"].ins = {1, 2}
  /\ delivered["alice"].del = {}
  /\ pairs["alice"]["a"] = <<2, OpValue(2)>>
  /\ events["alice"] = <<>>

\* C4: in every reachable state and for every batch, a second process(batch)
\* right after the first leaves live pairs, tombstones and size as the first
\* left them and emits neither 'set' nor 'delete'.
C4_ProcessIdempotent ==
  \A queue \in Batches :
    LET once == ProcessBody(ReplicaState("alice"), queue, FALSE, now)
        twice == ProcessBody([pairs |-> once.pairs, deletions |-> once.deletions,
                              size |-> once.size], queue, FALSE, now)
    IN /\ twice.pairs = once.pairs
       /\ twice.deletions = once.deletions
       /\ twice.size = once.size
       /\ EventTypes(twice.events) \subseteq {"affirm"}

\* C7: from every reachable state, a process call that carries only
\* insertions whose ids are tombstoned on the replica (each possibly several
\* times) installs nothing: the live-pair table and size stay as they were
\* and no event is emitted.
C7_TombstoneSuppressesInsertion ==
  \A queue \in Batches :
    (/\ queue[1] # <<>>
     /\ queue[2] = <<>>
     /\ InsIds(queue) \subseteq Tombstoned("alice"))
    => LET res == ProcessBody(ReplicaState("alice"), queue, FALSE, now)
       IN /\ res.pairs = pairs["alice"]
          /\ res.size = size["alice"]
          /\ res.events = <<>>

C7_Witness ==
  \E i \in delivered["alice"].late :
    /\ lastOp["alice"].op = "process"
    /\ events["alice"] = <<>>
    /\ deletions["alice"][i] = OpKey(i)
    /\ pairs["alice"][OpKey(i)] = NoPair

\* C8: from every reachable state, a process call that carries only
\* deletions removes the live pair of a key exactly when one of its deletions
\* (id, key) names the id that pair carries; every other live pair stays in
\* place with its value, and every deletion of the batch is recorded as a
\* tombstone.
C8_ObservedRemove ==
  \A queue \in Batches :
    queue[1] = <<>>
    => LET res == ProcessBody(ReplicaState("alice"), queue, FALSE, now)
       IN /\ \A k \in Keys :
               res.pairs[k] =
                 IF /\ pairs["alice"][k] # NoPair
                    /\ \E n \in 1..Len(queue[2]) :
                         queue[2][n] = DeleteMessage(pairs["alice"][k][1], k)
                 THEN NoPair
                 ELSE pairs["alice"][k]
          /\ \A n \in 1..Len(queue[2]) :
               res.deletions[queue[2][n][1]] = queue[2][n][2]

C8_Witness ==
  \E i \in delivered["alice"].del :
    /\ lastOp["alice"].op = "process"
    /\ events["alice"] = <<>>
    /\ deletions["alice"][i] = OpKey(i)
    /\ pairs["alice"][OpKey(i)] # NoPair
    /\ pairs["alice"][OpKey(i)][1] # i
    /\ i \notin delivered["alice"].ins

\* The rearrangements of a list.
Rearrangements(seq) ==
  {[n \in 1..Len(seq) |-> seq[f[n]]] :
     f \in {g \in [1..Len(seq) -> 1..Len(seq)] :
              \A m, n \in 1..Len(seq) : g[m] = g[n] => m = n}}

\* C30: from every reachable state, for every batch whose insertions carry
\* distinct ids, process gives the same live pairs, tombstones and size
\* whatever the order of the records inside the insertions list and inside
\* the deletions list.
C30_BatchOrderIndependence ==
  \A queue \in Batches :
    Cardinality(InsIds(queue)) = Len(queue[1])
    => LET res == ProcessBody(ReplicaState("alice"), queue, FALSE, now)
       IN \A ins \in Rearrangements(queue[1]), del \in Rearrangements(queue[2]) :
            LET other == ProcessBody(ReplicaState("alice"), <<ins, del>>, FALSE, now)
            IN /\ other.pairs = res.pairs
               /\ other.deletions = res.deletions
               /\ other.size = res.size

\* The replica has processed a batch that carried two insertions of one key,
\* the larger id first: the only event of the call is the 'set' of the larger
\* id on a key that was absent.
C30_Witness ==
  \E i1 \in Ids, i2 \in Ids :
    /\ IdLess(i1, i2)
    /\ OpKey(i1) = OpKey(i2)
    /\ lastOp["alice"].op = "process"
    /\ Tombstoned("alice") = {}
    /\ {i1, i2} \subseteq delivered["alice"].ins
    /\ events["alice"] = <<<<"set", OpKey(i2), OpValue(i2), Undefined>>>>
    /\ pairs["alice"][OpKey(i2)] = <<i2, OpValue(i2)>>

\* C27: in every map variant, an insertion whose id is the id of the live
\* pair of its key leaves the live pairs and size as they were and emits one
\* 'affirm' event with the key, the value and the current value, and nothing
\* else.
C27_AffirmOnReReceipt ==
  \A variant \in MapVariants, k \in Keys, value \in Values :
    pairs["alice"][k] # NoPair
    => LET pair == pairs["alice"][k]
           st == [pairs |-> pairs["alice"], size |-> size["alice"], events |-> <<>>]
           res == InsertOneOf(variant, st, deletions["alice"],
                              InsertMessage(k, pair[1], value))
       IN /\ res.pairs = pairs["alice"]
          /\ res.size = size["alice"]
          /\ res.events = <<<<"affirm", k, value, pair[2]>>>>

\* The batch carries a deletion for key k and, for every insertion of k that
\* it carries, the deletion of that insertion's id: what the sender did to k
\* it has cancelled.
CancelledIn(queue, k) ==
  /\ \E m \in 1..Len(queue[2]) : queue[2][m][2] = k
  /\ \A n \in 1..Len(queue[1]) :
       queue[1][n][1] = k
       => \E m \in 1..Len(queue[2]) : queue[2][m] = DeleteMessage(queue[1][n][2][1], k)

EventsAbout(evs, k) == {n \in 1..Len(evs) : evs[n][2] = k}

\* C21: from every reachable state in which the replica holds no live pair
\* for a key, a process call whose batch carries the key only as cancelled
\* operations (a dump after set and delete, or a batch with both the insertion
\* and the deletion of an id) emits no event for the key and leaves it absent.
C21_CancelledIsSilent ==
  \A queue \in Batches, k \in Keys :
    (pairs["alice"][k] = NoPair /\ CancelledIn(queue, k))
    => LET res == ProcessBody(ReplicaState("alice"), queue, FALSE, now)
       IN /\ res.pairs[k] = NoPair
          /\ EventsAbout(res.events, k) = {}

\* The replica was handed the insertion and the deletion of an id whose
\* tombstone was not stored before, the call emitted nothing and the key is
\* absent.
C21_Witness ==
  \E i \in delivered["alice"].ins \cap delivered["alice"].del :
    /\ delivered["alice"].ins = {i}
    /\ delivered["alice"].late = {}
    /\ lastOp["alice"].op = "process"
    /\ events["alice"] = <<>>
    /\ size["alice"] = 0
    /\ deletions["alice"][i] = OpKey(i)
    /\ pairs["alice"][OpKey(i)] = NoPair

\* The value each key maps to in a live-pair table (Undefined when it has no
\* live pair), which is what the 'set' and 'delete' events speak of.
ValueView(prs) == [k \in Keys |-> IF prs[k] = NoPair THEN Undefined ELSE prs[k][2]]

\* The 'set' and 'delete' events of evs read as changes of a value view, one
\* after the other: a 'set' must name as previous the value the key had, and a
\* 'delete' must name the value of a key that had one.
RECURSIVE Replay(_, _)
Replay(view, evs) ==
  IF evs = <<>> THEN [ok |-> TRUE, view |-> view]
  ELSE LET e == Head(evs)
       IN IF e[1] = "set"
            THEN IF view[e[2]] = e[4]
                   THEN Replay([view EXCEPT ![e[2]] = e[3]], Tail(evs))
                 ELSE [ok |-> FALSE, view |-> view]
          ELSE IF e[1] = "delete"
            THEN IF view[e[2]] # Undefined /\ view[e[2]] = e[3]
                   THEN Replay([view EXCEPT ![e[2]] = Undefined], Tail(evs))
                 ELSE [ok |-> FALSE, view |-> view]
          ELSE Replay(view, Tail(evs))

\* C35: the 'set' and 'delete' events of a process call mirror its changes of
\* the live-pair table.  Read in order from the table before the call, each
\* 'set'(key, value, previous) names the value being replaced (undefined when
\* the key had no pair) and each 'delete'(key, value) the value removed, and
\* they lead to the table after the call; and the call emits a 'set' or
\* 'delete' event exactly when it changes the table.
C35_EventsMirrorState ==
  \A queue \in Batches :
    LET res == ProcessBody(ReplicaState("alice"), queue, FALSE, now)
        replayed == Replay(ValueView(pairs["alice"]), res.events)
    IN /\ replayed.ok
       /\ replayed.view = ValueView(res.pairs)
       /\ (res.pairs = pairs["alice"])
          <=> (EventTypes(res.events) \cap {"set", "delete"} = {})

\* A process call has replaced the live pair of one key, naming the value it
\* replaced, and removed the live pair of another.
C35_Witness ==
  /\ \E n \in 1..Len(events["alice"]) :
       events["alice"][n][1] = "set" /\ events["alice"][n][4] # Undefined
  /\ \E n \in 1..Len(events["alice"]) : events["alice"][n][1] = "delete"

\* ================================================ properties of the system
\* C5: when a set(key, value) that ran with no other operation in flight on
\* its replica has returned, get(key) is value and, value being truthy,
\* has(key) is true.
C5_SetThenGet ==
  \A r \in Replicas :
    (lastOp[r].op = "set" /\ lastOp[r].solo)
    => (/\ Get(r, lastOp[r].key) = lastOp[r].value
        /\ Truthy(lastOp[r].value) => Has(r, lastOp[r].key))

C15_HasIffLivePair ==
  \A r \in Replicas, k \in Keys : Has(r, k) <=> pairs[r][k] # NoPair

\* The queue of replica r holds one call, a delete(key) issued when nothing
\* was in flight, and this step runs it.
SoloDeleteRuns(r) ==
  /\ Len(processQueue[r]) = 1
  /\ Head(processQueue[r]).op = "delete"
  /\ Head(processQueue[r]).solo
  /\ processQueue'[r] = <<>>

\* C16: a delete(key) that ran with nothing else in flight on a key whose
\* live pair is (id, value) leaves has(key) false, size one smaller and the
\* tombstone id -> key stored, has emitted exactly the event 'delete'(key,
\* value), and has appended the deletion (id, key) to the delete queue.
C16_DeleteRemoves ==
  [][\A r \in Replicas, key \in Keys :
       (SoloDeleteRuns(r) /\ Head(processQueue[r]).key = key)
       => LET pair == pairs[r][key]
          IN /\ pair # NoPair
             /\ pairs'[r][key] = NoPair
             /\ ~(Has(r, key))'
             /\ size'[r] = size[r] - 1
             /\ deletions'[r][pair[1]] = key
             /\ events'[r] = <<<<"delete", key, pair[2]>>>>
             /\ deleteQueue'[r] = Append(deleteQueue[r], DeleteMessage(pair[1], key))
             /\ publishTimeout'[r]]_vars

C16_Witness ==
  \E r \in Replicas, k \in Keys :
    /\ lastOp[r] = Call("delete", k, Undefined, TRUE)
    /\ Len(events[r]) = 1
    /\ events[r][1][1] = "delete"
    /\ pairs[r][k] = NoPair
    /\ deletions[r][deleteQueue[r][Len(deleteQueue[r])][1]] = k
    /\ publishTimeout[r]

\* C17: delete(key) on a key with no live pair changes nothing: live pairs,
\* tombstones, size, both queues, the publish timer, the pending calls and the
\* published batches stay as they are, and no event is emitted.
C17_DeleteAbsentIsNoOp ==
  [][\A r \in Replicas, k \in Keys :
       (pairs[r][k] = NoPair /\ DeleteCall(r, k))
       => /\ UNCHANGED <<pairs, deletions, size, insertQueue, deleteQueue,
                         publishTimeout, processQueue, net>>
          /\ events'[r] = <<>>]_vars

C17_Witness ==
  \E r \in Replicas, k \in Keys :
    /\ lastOp[r] = Call("delete", k, Undefined, TRUE)
    /\ events[r] = <<>>
    /\ pairs[r][k] = NoPair
    /\ processQueue[r] = <<>>
    /\ ~publishTimeout[r]
    /\ \E k2 \in Keys : pairs[r][k2] # NoPair

\* C20: for every reachable state of a replica, a fresh empty replica that
\* processes the replica's dump() holds, before the flush, the same live
\* pairs, the same tombstones and the same size.
C20_DumpRoundTrip ==
  \A r \in Replicas :
    LET res == ProcessBody([pairs |-> EmptyPairs, deletions |-> EmptyDeletions,
                            size |-> 0], Dump(r), TRUE, now)
    IN /\ res.pairs = pairs[r]
       /\ res.size = size[r]
       /\ res.deletions = deletions[r]

C20_Witness ==
  \E r \in Replicas :
    /\ Len(Dump(r)[1]) >= 1
    /\ Len(Dump(r)[2]) >= 1
    /\ lastOp[r].op = "process"
    /\ size[r] = Len(Dump(r)[1])

\* ============================================ properties of the replica set
\* entries(): the key/value pairs of the live pairs.
Entries(r) == {<<k, pairs[r][k][2]>> : k \in {kk \in Keys : pairs[r][kk] # NoPair}}

\* Every call has returned, every queue has been published and every
\* published batch has been delivered.
Quiescent ==
  /\ net = {}
  /\ \A r \in Replicas :
       /\ Idle(r)
       /\ ~publishTimeout[r]
       /\ insertQueue[r] = <<>>
       /\ deleteQueue[r] = <<>>

\* C11: once every batch published for a finite sequence of set and delete
\* calls has been delivered to the other replica, in any order and after any
\* delay, with no tombstone aged out, the replicas' entries() yield the same
\* key/value pairs.
C11_EventualConvergence ==
  Quiescent => Entries("alice") = Entries("bob")

\* Replica r calls set(OpKey(id), OpValue(id), id) and then delete(OpKey(id)),
\* each awaited, and publishes a batch after each; peer p processes the two
\* batches in the order sent, in the opposite order, or as one batch.  The
\* result is whether r's live pairs and p's live pairs are, each time, what
\* they were before.
SetThenDeleteIsIdentity(r, p, id) ==
  LET k == OpKey(id)
      set == SetBatch(pairs[r], k, OpValue(id), id)
      s1 == StateAfter(ReplicaState(r), set, TRUE)
      del == DeleteBatch(s1.pairs, k)
      s2 == StateAfter(s1, del, TRUE)
      both == <<set[1] \o del[1], set[2] \o del[2]>>
      inOrder == StateAfter(StateAfter(ReplicaState(p), set, FALSE), del, FALSE)
      reversed == StateAfter(StateAfter(ReplicaState(p), del, FALSE), set, FALSE)
      together == StateAfter(ReplicaState(p), both, FALSE)
  IN /\ s2.pairs = pairs[r]
     /\ inOrder.pairs = pairs[p]
     /\ reversed.pairs = pairs[p]
     /\ together.pairs = pairs[p]

C26_ClearEmpties ==
  [][\A r \in Replicas :
       LocalClear(r)
       => /\ pairs'[r] = EmptyPairs
          /\ size'[r] = 0
          /\ \A k \in LiveKeys(r) : deletions'[r][pairs[r][k][1]] = k
          /\ \A i \in Ids :
               (deletions[r][i] # NotFound \/ \E k \in LiveKeys(r) : pairs[r][k][1] = i)
                 <=> deletions'[r][i] # NotFound]_vars

\* clear() has returned on a replica that held two live pairs.
C26_Witness ==
  \E r \in Replicas :
    /\ lastOp[r].op = "clear"
    /\ Len(events[r]) = 2
    /\ pairs[r] = EmptyPairs
    /\ size[r] = 0
    /\ Cardinality(Tombstoned(r)) >= 2

\* C29: an add of a value whose hash already has a live entry leaves one
\* live entry for the hash, carrying the larger of the entry's id and the
\* id of the add, and size is what it was.
C29_SetCollapse ==
  [][\A hash \in Keys, id \in Ids :
       (pairs["alice"][hash] # NoPair /\ Add("alice", hash, OpValue(id), id))
       => /\ pairs'["alice"][hash] # NoPair
          /\ pairs'["alice"][hash][1] = MaxOf({pairs["alice"][hash][1], id})
          /\ size'["alice"] = size["alice"]
          /\ size'["alice"] = Cardinality(LiveKeys("alice"))']_vars

C14_SizeCounter ==
  \A r \in Replicas :
    (sizeScan[r] = NoScan /\ Idle(r) /\ running[r] = <<>>)
    => size[r] = Cardinality(LiveKeys(r))

\* C13: when the calls issued on a replica without awaiting have all run, its
\* live pairs and tombstones are those of the same calls run one after
\* another, each awaited, in the order issued.
C13_SubmissionOrder ==
  Idle("alice")
  => /\ pairs["alice"] = pairs["bob"]
     /\ deletions["alice"] = deletions["bob"]

\* ====================================================== properties of flush
\* C25: once shutdown() has returned, and while the application has submitted
\* no operation since it called shutdown, no publish timer is pending and no
\* call waits or runs in the process queue.
C25_ShutdownQuiescence ==
  \A r \in Replicas :
    (shutdownCall[r].state = "returned" /\ shutdownCall[r].calls = calls)
    => /\ timers[r] = 0
       /\ processQueue[r] = <<>>
       /\ running[r] = <<>>

\* C18: right after a flush() run at time now, the tombstone table holds no
\* tombstone whose id carries a timestamp t with now - t >= maxAge, the
\* timestamp now - maxAge included.
C18_FlushComplete ==
  (lastOp["alice"].op = "flush" /\ lastOp["alice"].value = now)
  => \A i \in Ids : now - IdTime(i) >= MaxAge => deletions["alice"][i] = NotFound

\* C19: flush() never removes a tombstone whose id carries a timestamp t with
\* now - t < maxAge, and leaves the live pairs, size and both queues as they
\* are.
C19_FlushFrame ==
  [][FlushCall("alice")
     => /\ \A i \in Ids :
             now - IdTime(i) < MaxAge => deletions'["alice"][i] = deletions["alice"][i]
        /\ UNCHANGED <<pairs, size, insertQueue, deleteQueue>>]_vars

\* A flush has removed an aged tombstone and kept a younger one, next to a
\* live pair.
C19_Witness ==
  \E i, j \in delivered["alice"].del :
    /\ lastOp["alice"].op = "flush"
    /\ lastOp["alice"].value = now
    /\ deletions["alice"][i] = NotFound
    /\ deletions["alice"][j] # NotFound
    /\ now - IdTime(j) < MaxAge
    /\ \E k \in Keys : pairs["alice"][k] # NoPair

\* ======================================== properties of the signed variant
Forged(signedQueue) ==
  \/ \E n \in 1..Len(signedQueue[1]) :
       ~Verify(signedQueue[1][n][1],
               <<signedQueue[1][n][3], signedQueue[1][n][4], signedQueue[1][n][2]>>)
  \/ \E n \in 1..Len(signedQueue[2]) :
       ~Verify(signedQueue[2][n][1], <<signedQueue[2][n][3], signedQueue[2][n][2]>>)

\* C9: from every reachable state, a processSigned batch in which at least
\* one signature fails verification (a setSigned or deleteSigned call being
\* the one-record batch with skipFlush) throws InvalidSignatureError and
\* leaves the live-pair table, the tombstone table and size as they were, also
\* when other entries of the batch are validly signed; and a call that threw
\* has emitted no event.
C9_SignedAuthenticity ==
  /\ \A signedQueue \in SignedBatches, skipFlush \in BOOLEAN :
       Forged(signedQueue)
       => LET res == ProcessSignedBody(SignedState("alice"), signedQueue, skipFlush, now)
          IN /\ res.threw
             /\ res.pairs = pairs["alice"]
             /\ res.deletions = deletions["alice"]
             /\ res.size = size["alice"]
  /\ lastOp["alice"].threw => events["alice"] = <<>>

\* A batch with a validly signed insertion followed by a forged record was
\* rejected on a replica that holds a live pair and a tombstone: the valid
\* insertion was never delivered.
C9_Witness ==
  \E i \in SignedIds :
    /\ lastOp["alice"].op = "processSigned"
    /\ lastOp["alice"].threw
    /\ insertionSigs["alice"][i] # NoSignature
    /\ i \notin delivered["alice"].ins
    /\ pairs["alice"][OpKey(i)] # NoPair
    /\ pairs["alice"][OpKey(i)][1] # i
    /\ Tombstoned("alice") # {}

\* C23: on the signed variant a call of set, delete or clear fails with an
\* error and changes nothing: live pairs, tombstones, size, the signature
\* tables, the publish queues, the timer and what was published are as before.
C23_DisabledMutators ==
  [][\A r \in Replicas :
       (UnsupportedSet(r) \/ UnsupportedDelete(r) \/ UnsupportedClear(r))
       => /\ lastOp'[r].threw
          /\ UNCHANGED <<pairs, deletions, size, insertionSigs, deletionSigs,
                         insertQueue, deleteQueue, publishTimeout, processQueue, net>>]_vars

\* set() has thrown on a replica that holds a live pair and its signature.
C23_Witness ==
  /\ lastOp["alice"].op = "set"
  /\ lastOp["alice"].threw
  /\ \E k \in Keys :
       /\ pairs["alice"][k] # NoPair
       /\ insertionSigs["alice"][pairs["alice"][k][1]] # NoSignature

\* C24: a readyPromise that was rejected because one of the constructor's
\* initial entries failed to apply comes with an 'error' event that the
\* replica emitted.
C24_ReadinessFailure ==
  \A r \in Replicas :
    readyPromise[r] = "rejected"
    => \E n \in 1..Len(events[r]) : events[r][n][1] = "error"

\* C28: after a processSigned call that did not throw, the insertion
\* signature of each id the batch inserted is stored exactly when the live
\* pair of the insertion's key carries that id.
C28_InsertionSignatureLifetime ==
  \A signedQueue \in SignedBatches :
    ~Forged(signedQueue)
    => LET res == ProcessSignedBody(SignedState("alice"), signedQueue, FALSE, now)
       IN \A n \in 1..Len(signedQueue[1]) :
            LET id == signedQueue[1][n][2]
                key == signedQueue[1][n][3]
            IN (res.pairs[key] # NoPair /\ res.pairs[key][1] = id)
               <=> res.insertionSigs[id] # NoSignature

\* C10: a processSigned call that throws because a signature of its batch
\* fails verification has written nothing: the insertion-signature table and
\* the deletion-signature table are after the call what they were before it,
\* wherever in the batch the invalid entry stands.
C10_NoPartialState ==
  [][lastOp'["alice"].threw
     => /\ insertionSigs'["alice"] = insertionSigs["alice"]
        /\ deletionSigs'["alice"] = deletionSigs["alice"]]_vars

\* ======================================= properties of the publish buffer
\* C31: on a replica driven by set, delete, setSigned, deleteSigned and the
\* expiry of its timer, at most one publish timer is outstanding, and
\* publishTimeout holds a handle exactly while a timer is outstanding.
C31_AtMostOnePendingPublish ==
  \A r \in Replicas :
    /\ timers[r] <= 1
    /\ publishTimeout[r] <=> (timers[r] = 1)

\* Two operations have been pushed on the buffer of a replica while its
\* timer was pending.
C31_Witness ==
  \E r \in Replicas :
    /\ timers[r] = 1
    /\ Len(insertQueue[r]) + Len(deleteQueue[r]) >= 2

IsPrefix(a, b) == Len(a) <= Len(b) /\ SubSeq(b, 1, Len(a)) = a

\* The step leaves the messages on the buffer of r behind a pending timer, or
\* emits them, after all that the buffer held, in one batch that empties it.
PushedOrPublished(r, insMsgs, delMsgs) ==
  \/ /\ insertQueue'[r] = insertQueue[r] \o insMsgs
     /\ deleteQueue'[r] = deleteQueue[r] \o delMsgs
     /\ timers'[r] = 1
     /\ net' = net
  \/ /\ insertQueue'[r] = <<>>
     /\ deleteQueue'[r] = <<>>
     /\ <<r, <<insertQueue[r] \o insMsgs, deleteQueue[r] \o delMsgs>>>> \in net'

\* The step is a call of setSigned or deleteSigned on r that shows in the
\* state of r.
SignedCallStep(r) ==
  /\ calls' = calls + 1
  /\ processQueue' = processQueue
  /\ \/ lastOp'[r] # lastOp[r]
     \/ events'[r] # events[r]
     \/ pairs'[r] # pairs[r]
     \/ deletions'[r] # deletions[r]

\* C32: every operation that set, delete, setSigned or deleteSigned appends to
\* the insert or delete queue is emitted in exactly one 'publish' batch.  The
\* call that made it leaves it on the buffer behind a pending timer or emits
\* it at once; a step changes the buffer only by appending to it or by
\* emitting all of it in one batch and emptying it, and emits a batch only so;
\* and while a buffer holds an operation its timer is pending, whose expiry
\* emits the buffer.
C32_ExactlyOncePublication ==
  [][   /\ RunTask("alice")
           => PushedOrPublished("alice", Head(processQueue["alice"]).queue[1],
                                Head(processQueue["alice"]).queue[2])
        /\ (SignedCallStep("bob") /\ ~lastOp'["bob"].threw)
           => \/ /\ lastOp'["bob"].op = "setSigned"
                 /\ \E m \in SignedCatalogueInsertions :
                      /\ m[3] = lastOp'["bob"].key
                      /\ PushedOrPublished("bob", <<m>>, <<>>)
              \/ /\ lastOp'["bob"].op = "deleteSigned"
                 /\ \E m \in SignedCatalogueDeletions :
                      /\ m[3] = lastOp'["bob"].key
                      /\ PushedOrPublished("bob", <<>>, <<m>>)
        /\ \A r \in Replicas :
             /\ \/ /\ IsPrefix(insertQueue[r], insertQueue'[r])
                   /\ IsPrefix(deleteQueue[r], deleteQueue'[r])
                \/ /\ insertQueue'[r] = <<>>
                   /\ deleteQueue'[r] = <<>>
                   /\ \E b \in net' : /\ b[1] = r
                                      /\ IsPrefix(insertQueue[r], b[2][1])
                                      /\ IsPrefix(deleteQueue[r], b[2][2])
             /\ \A b \in net' \ net :
                  b[1] = r => /\ insertQueue'[r] = <<>>
                              /\ deleteQueue'[r] = <<>>
                              /\ IsPrefix(insertQueue[r], b[2][1])
                              /\ IsPrefix(deleteQueue[r], b[2][2])
             /\ (insertQueue'[r] # <<>> \/ deleteQueue'[r] # <<>>) => timers'[r] = 1
             /\ TimerPublish(r)
                => /\ <<r, <<insertQueue[r], deleteQueue[r]>>>> \in net'
                   /\ insertQueue'[r] = <<>>
                   /\ deleteQueue'[r] = <<>>
       ]_<<calls, processQueue, bufferVars, net>>

\* An overwriting set has left its deletion and its insertion on the buffer of
\* alice behind another operation, and the timer that will emit them all is
\* pending.
C32_Witness ==
  /\ timers["alice"] = 1
  /\ deleteQueue["alice"] # <<>>
  /\ Len(insertQueue["alice"]) >= 2

\* C33: on a replica with bufferPublishing = 0, when a set or delete call
\* returns, the insert queue and the delete queue are empty and the messages
\* of the call have been emitted in a 'publish' batch; and whenever no call is
\* in flight both queues are empty.
C33_ImmediatePublishing ==
  [][bufferPublishing["alice"] = 0
     => /\ RunTask("alice")
           => /\ insertQueue'["alice"] = <<>>
              /\ deleteQueue'["alice"] = <<>>
              /\ <<"alice", <<Head(processQueue["alice"]).queue[1],
                              Head(processQueue["alice"]).queue[2]>>>> \in net'
        /\ processQueue'["alice"] = <<>>
           => /\ insertQueue'["alice"] = <<>>
              /\ deleteQueue'["alice"] = <<>>
              /\ timers'["alice"] = 0
    ]_<<calls, processQueue, bufferVars, net>>

\* With bufferPublishing = 0 an overwriting set has returned with no other
\* call in flight, and its deletion and insertion are in an emitted batch.
C33_Witness ==
  /\ bufferPublishing["alice"] = 0
  /\ lastOp["alice"].op = "set"
  /\ processQueue["alice"] = <<>>
  /\ \E b \in net : b[1] = "alice" /\ Len(b[2][1]) = 1 /\ Len(b[2][2]) = 1

\* C34: when a set(key, value) that found a live pair with id id_prev returns
\* (no other call having been in flight), the tombstone id_prev -> key is
\* recorded, the call has emitted one 'set' event and no 'delete' event, and
\* its deletion (id_prev, key) and its insertion have gone onto the buffer
\* together, to be carried by the same 'publish' batch.
C34_OverwritingSet ==
  [][(/\ RunTask("alice")
      /\ Head(processQueue["alice"]).op = "set"
      /\ Head(processQueue["alice"]).solo
      /\ Head(processQueue["alice"]).queue[2] # <<>>)
     => /\ deletions'["alice"][Head(processQueue["alice"]).queue[2][1][1]]
             = Head(processQueue["alice"]).key
        /\ Cardinality({n \in 1..Len(events'["alice"]) :
                          events'["alice"][n][1] = "set"}) = 1
        /\ \A n \in 1..Len(events'["alice"]) : events'["alice"][n][1] # "delete"
        /\ PushedOrPublished("alice", Head(processQueue["alice"]).queue[1],
                             Head(processQueue["alice"]).queue[2])
    ]_<<calls, processQueue, bufferVars, net>>

\* C36: on a signed replica, after any setSigned, deleteSigned and
\* processSigned calls, accepted or rejected, every live pair has a stored
\* insertion signature for its id and every tombstone a stored deletion
\* signature for its id, so that dump() finds the signature of every
\* operation it emits.
C36_SignatureCompleteness ==
  /\ \A k \in Keys :
       pairs["alice"][k] # NoPair
       => insertionSigs["alice"][pairs["alice"][k][1]] # NoSignature
  /\ \A i \in Ids :
       deletions["alice"][i] # NotFound => deletionSigs["alice"][i] # NoSignature

\* Every signed message of the batch carries a signature that verifies.
AllVerify(batch) ==
  /\ \A n \in 1..Len(batch[1]) :
       Verify(batch[1][n][1], <<batch[1][n][3], batch[1][n][4], batch[1][n][2]>>)
  /\ \A n \in 1..Len(batch[2]) :
       Verify(batch[2][n][1], <<batch[2][n][3], batch[2][n][2]>>)

\* C37: a setSigned or deleteSigned call that fails with
\* InvalidSignatureError leaves the insert queue, the delete queue and the
\* publish timer as they were and emits no batch; and no message whose
\* signature fails verification is ever on the buffer of a signed replica or
\* in a 'publish' batch it emitted.
C37_RejectedPublishesNothing ==
  [][/\ (lastOp'["bob"].threw /\ calls' # calls)
        => /\ insertQueue'["bob"] = insertQueue["bob"]
           /\ deleteQueue'["bob"] = deleteQueue["bob"]
           /\ publishTimeout'["bob"] = publishTimeout["bob"]
           /\ timers'["bob"] = timers["bob"]
           /\ \A b \in net' \ net : b[1] # "bob"
     /\ AllVerify(<<insertQueue'["bob"], deleteQueue'["bob"]>>)
     /\ \A b \in net' : b[1] = "bob" => AllVerify(b[2])
    ]_<<calls, processQueue, bufferVars, net>>

\* A setSigned call has been rejected while an accepted message was waiting
\* on the buffer, and another accepted message has been emitted.
C37_Witness ==
  /\ lastOp["bob"].threw
  /\ lastOp["bob"].op \in {"setSigned", "deleteSigned"}
  /\ Len(insertQueue["bob"]) + Len(deleteQueue["bob"]) = 1
  /\ timers["bob"] = 1

\* ================================================ properties of the queues
QueuesDrained(r) ==
  /\ processQueue[r] = <<>>
  /\ running[r] = <<>>
  /\ signedProcessQueue[r] = <<>>
  /\ signedRunning[r] = <<>>

C39_IdMonotonicity ==
  Len(generated) = 2 => StringLess(generated[1], generated[2])

\* ========================================== properties of the shared store
\* C40: namespace isolation.  Of two replicas with distinct namespaces on the
\* same store, no operation of the one (set, delete, flush, dump, size
\* reconciliation) reads, overwrites or deletes an entry the other wrote, and
\* the four key ranges of one namespace have no entry in common.
C40_NamespaceIsolation ==
  /\ \A a \in lastAccess : a.writer = a.by
  /\ \A r \in Replicas : \A s, t \in Separators :
       s # t => PrefixRange(db, r, s) \cap PrefixRange(db, r, t) = {}

====
